---------------------------- MODULE Spec2Model ----------------------------
(***************************************************************************)
(* A model of the TradingSystem service pipeline (Icosahedral-Dice).       *)
(*                                                                         *)
(* Every service call is synchronous, so one action is one top-level event *)
(* (one record read by a connector's Subscribe loop, or one external call) *)
(* together with every nested OnMessage / ProcessAdd / Publish it causes.  *)
(* Prices are integers counting 1/256ths (the grid ConvertPrice produces). *)
(***************************************************************************)
EXTENDS Integers, Sequences, FiniteSets, TLC

(***************************************************************************)
(* Bounds of the model.                                                    *)
(***************************************************************************)
MaxInquiries == 3

MaxTrades == 2

MaxRecords == 6

MaxPrices == 4

\* records of marketdata.txt read while AggregateDepth and GetBestBidOffer
\* are being called
MaxQueryRecords == 4

\* orders in each stack of a book handed to GetBestBidOffer on its own
MaxStack == 2

\* whole part of the lowest and of the highest price given to the codec
GridLow == 99

\* rows of trades.txt read before and between GetData calls
MaxGetDataRows == 1

\* lines of trades.txt read as text
MaxTradeLines == 3

GridHigh == 101

\* MarketDataService::book_depth_ is 10 in the source; the model reads
\* windows of 2 * BookDepth records
BookDepth == 1
\* rows of trades.txt read in the position scenario
MaxPositionRows == 3

(***************************************************************************)
(* Domains of the inputs.                                                  *)
(***************************************************************************)
Products == {"91282CFX4", "91282CFW6"}

\* a productId that is not a key of kBondMapCusip
UnknownProductId == "912810ZZ9"

InquiryIds == {"INQ01", "INQ02"}

InquiryStates == {"RECEIVED", "QUOTED", "DONE", "REJECTED", "CUSTOMER_REJECTED"}

Sides == {"BUY", "SELL"}

InquiryPrices == {25600, 25604}

InquiryQuantities == {1000000}

Books == {"TRSY1", "TRSY2", "TRSY3"}

\* the rows trades.txt is drawn from
TradeIds == {"T1", "T2"}

TradeBooks == {"TRSY1", "TRSY2"}

TradePrices == {25600}

TradeQuantities == {1000000, 500000}
\* the trade quantities of the position scenario
PositionQuantities == {1000000, 500000, 250000}

PricingSides == {"BID", "OFFER"}

\* the rows marketdata.txt is drawn from (price in 1/256ths)
MarketDataRows ==
    {[product |-> "91282CFX4", price |-> 25600, quantity |-> 1000000, side |-> "BID"],
     [product |-> "91282CFX4", price |-> 25602, quantity |-> 2000000, side |-> "BID"],
     [product |-> "91282CFX4", price |-> 25602, quantity |-> 3000000, side |-> "OFFER"],
     [product |-> "91282CFX4", price |-> 25603, quantity |-> 4000000, side |-> "OFFER"],
     [product |-> "91282CFW6", price |-> 25600, quantity |-> 5000000, side |-> "BID"],
     [product |-> "91282CFW6", price |-> 25603, quantity |-> 6000000, side |-> "OFFER"]}

\* the rows prices.txt is drawn from (bid and ask in 1/256ths)
PriceRows ==
    {[product |-> "91282CFX4", bid |-> 25599, ask |-> 25601],
     [product |-> "91282CFX4", bid |-> 25598, ask |-> 25601],
     [product |-> "91282CFW6", bid |-> 25599, ask |-> 25601],
     [product |-> "91282CFX4", bid |-> 25598, ask |-> 25602]}

\* the milliseconds that pass on the clock from one price to the next
ClockSteps == {150, 299, 300}

\* What the build can produce where the source reads memory it never wrote:
\* element 0 of an empty vector (OrderBook::GetBidOffer) either faults or
\* yields some Order.
UndefinedReads ==
    {[emptyStack |-> e, order |-> o] :
        e \in {"fault", "value"},
        o \in {[price |-> 0, quantity |-> 0, side |-> "BID"],
               [price |-> 25601, quantity |-> 7000000, side |-> "OFFER"]}}

VARIABLES
    inquiries_,        \* InquiryService::inquiries_
    allinquiries_txt,  \* lines appended to allinquiries.txt
    inquiryCall,       \* observation of the last top-level call on InquiryService
    inquiryOps,        \* number of top-level calls made on InquiryService
    trades_,           \* TradeBookingService::trades_
    count_tb,          \* ExecutionToTradeBookingListener::count_
    positions_,        \* PositionService::positions_
    pv01s_,            \* RiskService::pv01s_
    positions_txt,     \* lines appended to positions.txt
    risk_txt,          \* lines appended to risk.txt
    netReceived,       \* per product, the signed sum of the trades AddTrade received
    addTrades,         \* the AddTrade calls of the last top-level event
    tradeRows,         \* rows read from trades.txt
    tradesReceived,    \* the trades delivered to TradeBookingService::OnMessage
    bid_stack,         \* MarketDataConnector::Subscribe: bid_stack
    offer_stack,       \* MarketDataConnector::Subscribe: offer_stack
    order_count,       \* MarketDataConnector::Subscribe: order_count
    recordsRead,       \* records read from marketdata.txt
    marketdata_txt,    \* the records of marketdata.txt read so far, in file order
    order_books_,      \* MarketDataService::order_books_
    booksDelivered,    \* the books delivered to MarketDataService::OnMessage
    execution_count_,  \* AlgoExecutionService::execution_count_
    algo_execution_orders_, \* AlgoExecutionService::algo_execution_orders_
    algoOrders,        \* the AlgoExecutionOrders emitted so far
    algoExecute,       \* observation of the last AlgoExecute call
    execution_orders_, \* ExecutionService::execution_orders_
    executions_txt,    \* lines appended to executions.txt
    faulted,           \* the process has faulted
    bookQuery,         \* observation of the last AggregateDepth / GetBestBidOffer call
    clock,             \* the millisecond clock
    priceRows,         \* rows read from prices.txt
    prices_txt,        \* the rows of prices.txt read so far, in file order
    count_as,          \* AlgoStreamingService::count_
    algo_streams_,     \* AlgoStreamingService::algo_streams_
    algoStreams,       \* the AlgoStreams emitted so far
    price_streams_,    \* StreamingService::price_streams_
    streaming_txt,     \* lines appended to streaming.txt
    guis_,             \* GUIService::guis_
    millisec_,         \* GUIService::millisec_
    gui_txt,           \* lines appended to gui.txt
    guiPublish,        \* observation of the last GUIConnector::Publish call
    codec,             \* a price, its text from ConvertPrice and the text parsed back
    tradeLines,        \* the lines of trades.txt read so far, as text
    getData,           \* observation of the last GetData call
    bucketedRisk       \* observation of the last GetBucketedRisk call

inquiryVars == <<inquiries_, allinquiries_txt, inquiryCall, inquiryOps>>

bookingVars == <<trades_, count_tb, positions_, pv01s_, positions_txt, risk_txt,
                 netReceived, addTrades, tradeRows, tradesReceived>>

marketVars == <<bid_stack, offer_stack, order_count, recordsRead, marketdata_txt, order_books_,
                booksDelivered, execution_count_, algo_execution_orders_, algoOrders,
                algoExecute,
                execution_orders_, executions_txt, faulted, bookQuery>>

pricingVars == <<clock, priceRows, prices_txt, count_as, algo_streams_, algoStreams,
                 price_streams_, streaming_txt, guis_, millisec_, gui_txt,
                 guiPublish>>

utilVars == <<codec, tradeLines, getData, bucketedRisk>>

vars == <<inquiries_, allinquiries_txt, inquiryCall, inquiryOps,
          trades_, count_tb, positions_, pv01s_, positions_txt, risk_txt,
          netReceived, addTrades, tradeRows, tradesReceived,
          bid_stack, offer_stack, order_count, recordsRead, marketdata_txt, order_books_,
          booksDelivered, execution_count_, algo_execution_orders_, algoOrders,
                algoExecute,
          execution_orders_, executions_txt, faulted, bookQuery,
          clock, priceRows, prices_txt, count_as, algo_streams_, algoStreams,
          price_streams_, streaming_txt, guis_, millisec_, gui_txt,
          guiPublish, codec, tradeLines, getData, bucketedRisk>>

(***************************************************************************)
(* utilities.hpp: the price codec.  A text is a sequence of characters.    *)
(***************************************************************************)
DigitChars == <<"0", "1", "2", "3", "4", "5", "6", "7", "8", "9">>

\* std::to_string of a non-negative int
RECURSIVE to_string(_)
to_string(n) ==
    IF n < 10 THEN <<DigitChars[n + 1]>>
    ELSE to_string(n \div 10) \o <<DigitChars[(n % 10) + 1]>>

IsDigit(c) == \E d \in 1..10 : DigitChars[d] = c

DigitValue(c) == (CHOOSE d \in 1..10 : DigitChars[d] = c) - 1

\* what stands for a std::invalid_argument thrown instead of a value
Throws == -1

\* std::stoi of a text of digits: the leading digits, read in base 10;
\* Throws when the text does not start with a digit
RECURSIVE stoi_from(_, _, _)
stoi_from(str, i, acc) ==
    IF i > Len(str) \/ ~IsDigit(str[i]) THEN acc
    ELSE stoi_from(str, i + 1, 10 * acc + DigitValue(str[i]))

stoi(str) ==
    IF str = <<>> \/ ~IsDigit(str[1]) THEN Throws ELSE stoi_from(str, 1, 0)

\* str.find(c): the first position of c, counted from 0, or Len(str) + 1
\* standing for npos
find(str, c) ==
    IF \E i \in 1..Len(str) : str[i] = c
    THEN (CHOOSE i \in 1..Len(str) :
              str[i] = c /\ \A j \in 1..(i - 1) : str[j] # c) - 1
    ELSE Len(str) + 1

\* str.substr(pos, n), pos counted from 0
substr(str, pos, n) ==
    SubSeq(str, pos + 1, IF pos + n > Len(str) THEN Len(str) ELSE pos + n)

ConvertPrice_string_PlusIs128th(str_price) ==
    LET delimiter_pos == find(str_price, "-")
        whole == stoi(substr(str_price, 0, delimiter_pos))
        xy == stoi(substr(str_price, delimiter_pos + 1, 2))
        last_char == str_price[delimiter_pos + 4]
    IN  IF whole = Throws \/ xy = Throws THEN Throws
        ELSE whole * 256 + xy * 8
             + (IF last_char = "+" THEN 2 ELSE DigitValue(last_char))

\* ConvertPrice(const string&), for a text that holds a '-' followed by at
\* least three characters, the third a digit or '+': the price in 1/256ths,
\* or Throws when a stoi throws.  A '+' as last character adds 1/64.
ConvertPrice_string(str_price) ==
    LET delimiter_pos == find(str_price, "-")
        whole == stoi(substr(str_price, 0, delimiter_pos))
        xy == stoi(substr(str_price, delimiter_pos + 1, 2))
        last_char == str_price[delimiter_pos + 4]
    IN  IF whole = Throws \/ xy = Throws THEN Throws
        ELSE whole * 256 + xy * 8
             + (IF last_char = "+" THEN 4 ELSE DigitValue(last_char))

\* ConvertPrice(float), for a price f_price given in 1/256ths
ConvertPrice_float(f_price) ==
    LET whole == f_price \div 256
        xy == (f_price % 256) \div 8
        z == f_price % 8
    IN  to_string(whole) \o <<"-">>
        \o (IF xy < 10 THEN <<"0">> ELSE <<>>) \o to_string(xy)
        \o (IF z = 4 THEN <<"+">> ELSE to_string(z))

NoCodec == [step |-> "none", price |-> 0, text |-> <<>>, parsed |-> 0]

\* ConvertPrice(float) applied to a price of the grid
PriceToText ==
    /\ codec.step = "price"
    /\ codec' = [codec EXCEPT !.step = "text",
                              !.text = ConvertPrice_float(codec.price)]
    /\ UNCHANGED <<inquiryVars, bookingVars, marketVars, pricingVars,
                   tradeLines, getData, bucketedRisk>>

\* ConvertPrice(const string&) applied to the text PriceToText produced
TextToPrice ==
    /\ codec.step = "text"
    /\ codec' = [codec EXCEPT !.step = "parsed",
                              !.parsed = ConvertPrice_string(codec.text)]
    /\ UNCHANGED <<inquiryVars, bookingVars, marketVars, pricingVars,
                   tradeLines, getData, bucketedRisk>>

(***************************************************************************)
(* InquiryService                                                          *)
(***************************************************************************)
Absent == [absent |-> TRUE]

NoGetData ==
    [service |-> "none", key |-> "", seen |-> FALSE, threw |-> FALSE,
     value |-> Absent, stored |-> Absent]

Inquiry(inquiryId, product, side, quantity, price, state) ==
    [inquiryId |-> inquiryId, product |-> product, side |-> side,
     quantity |-> quantity, price |-> price, state |-> state]

SetState(data, state) == [data EXCEPT !.state = state]

SetPrice(data, price) == [data EXCEPT !.price = price]

\* unordered_map::operator[] on a missing key value-initialises the entry
DefaultInquiry ==
    Inquiry("", "", "BUY", 0, 0, "RECEIVED")

InquiriesAt(store, key) ==
    IF store[key] = Absent THEN DefaultInquiry ELSE store[key]

\* The state threaded through one top-level call: the store, the sink and
\* the calls observed while the call runs.
InquiryWorld(store, file) ==
    [store |-> store, file |-> file,
     onMessage |-> 0, publish |-> 0, subscribe |-> 0, processAdd |-> <<>>,
     delivered |-> <<>>, stored |-> <<>>]

HistoricalDataConnector_Publish_Prepends(file, data) == <<data>> \o file

HistoricalDataConnector_Publish(file, data) == Append(file, data)

HistoricalDataService_PersistData(file, persistKey, data) ==
    HistoricalDataConnector_Publish(file, data)

HistoricalDataListener_ProcessAdd(file, data) ==
    HistoricalDataService_PersistData(file, data.product, data)

\* the listeners of InquiryService: historical_inquiry_service (main.cpp)
InquiryListeners_ProcessAdd(w, data) ==
    [w EXCEPT !.processAdd = Append(@, data.state),
              !.file = HistoricalDataListener_ProcessAdd(@, data)]

RECURSIVE InquiryService_OnMessage(_, _)

InquiryConnector_SubscribeData(w, data) ==
    InquiryService_OnMessage([w EXCEPT !.subscribe = @ + 1], data)

InquiryConnector_Publish_StoresQuoted(w, data) ==
    LET w1 == [w EXCEPT !.publish = @ + 1]
        quoted == SetState(data, "QUOTED")
    IN  IF data.state = "RECEIVED"
        THEN InquiryConnector_SubscribeData(
                 [w1 EXCEPT !.store[data.inquiryId] = quoted,
                            !.stored = Append(@, quoted.state)], quoted)
        ELSE w1

\* data is the caller's Inquiry, of which the store holds a copy
InquiryConnector_Publish(w, data) ==
    LET w1 == [w EXCEPT !.publish = @ + 1]
    IN  IF data.state = "RECEIVED"
        THEN InquiryConnector_SubscribeData(w1, SetState(data, "QUOTED"))
        ELSE w1

InquiryService_OnMessage_NoDone(w, data) ==
    LET w1 == [w EXCEPT !.onMessage = @ + 1,
                        !.delivered = Append(@, data.state)]
    IN  CASE data.state = "RECEIVED" ->
               InquiryConnector_Publish(
                   [w1 EXCEPT !.store[data.inquiryId] = data,
                               !.stored = Append(@, data.state)], data)
          [] data.state = "QUOTED" ->
               InquiryListeners_ProcessAdd(
                   [w1 EXCEPT !.store[data.inquiryId] = data,
                               !.stored = Append(@, data.state)], data)
          [] OTHER -> w1

InquiryService_OnMessage_EarlyFanOut(w, data) ==
    LET w1 == [w EXCEPT !.onMessage = @ + 1,
                        !.delivered = Append(@, data.state)]
    IN  CASE data.state = "RECEIVED" ->
               InquiryConnector_Publish(
                   InquiryListeners_ProcessAdd(
                       [w1 EXCEPT !.store[data.inquiryId] = data,
                               !.stored = Append(@, data.state)], data),
                   data)
          [] data.state = "QUOTED" ->
               LET done == SetState(data, "DONE")
               IN  InquiryListeners_ProcessAdd(
                       [w1 EXCEPT !.store[done.inquiryId] = done,
                                   !.stored = Append(@, done.state)], done)
          [] OTHER -> w1

InquiryService_OnMessage_QuotedPublishes(w, data) ==
    LET w1 == [w EXCEPT !.onMessage = @ + 1,
                        !.delivered = Append(@, data.state)]
    IN  CASE data.state = "RECEIVED" ->
               InquiryConnector_Publish(
                   [w1 EXCEPT !.store[data.inquiryId] = data,
                               !.stored = Append(@, data.state)], data)
          [] data.state = "QUOTED" ->
               LET done == SetState(data, "DONE")
               IN  InquiryConnector_Publish(
                       InquiryListeners_ProcessAdd(
                           [w1 EXCEPT !.store[done.inquiryId] = done,
                                   !.stored = Append(@, done.state)], done),
                       done)
          [] OTHER -> w1

InquiryService_OnMessage_StoresAnyState(w, data) ==
    LET w1 == [w EXCEPT !.onMessage = @ + 1,
                        !.delivered = Append(@, data.state)]
    IN  CASE data.state = "RECEIVED" ->
               InquiryConnector_Publish(
                   [w1 EXCEPT !.store[data.inquiryId] = data,
                               !.stored = Append(@, data.state)], data)
          [] data.state = "QUOTED" ->
               LET done == SetState(data, "DONE")
               IN  InquiryListeners_ProcessAdd(
                       [w1 EXCEPT !.store[done.inquiryId] = done,
                                   !.stored = Append(@, done.state)], done)
          [] OTHER -> [w1 EXCEPT !.store[data.inquiryId] = data,
                               !.stored = Append(@, data.state)]

InquiryService_OnMessage(w, data) ==
    LET w1 == [w EXCEPT !.onMessage = @ + 1,
                        !.delivered = Append(@, data.state)]
    IN  CASE data.state = "RECEIVED" ->
               InquiryConnector_Publish(
                   [w1 EXCEPT !.store[data.inquiryId] = data,
                               !.stored = Append(@, data.state)], data)
          [] data.state = "QUOTED" ->
               LET done == SetState(data, "DONE")
               IN  InquiryListeners_ProcessAdd(
                       [w1 EXCEPT !.store[done.inquiryId] = done,
                                   !.stored = Append(@, done.state)], done)
          [] OTHER -> w1

InquiryService_SendQuote_SetsQuoted(w, inquiryId, price) ==
    LET inquiry == SetState(SetPrice(InquiriesAt(w.store, inquiryId), price), "QUOTED")
    IN  InquiryListeners_ProcessAdd(
            [w EXCEPT !.store[inquiryId] = inquiry,
                      !.stored = Append(@, inquiry.state)], inquiry)

InquiryService_SendQuote(w, inquiryId, price) ==
    LET inquiry == SetPrice(InquiriesAt(w.store, inquiryId), price)
    IN  InquiryListeners_ProcessAdd(
            [w EXCEPT !.store[inquiryId] = inquiry,
                      !.stored = Append(@, inquiry.state)], inquiry)

InquiryService_RejectInquiry_FansOut(w, inquiryId) ==
    LET inquiry == SetState(InquiriesAt(w.store, inquiryId), "REJECTED")
    IN  InquiryListeners_ProcessAdd(
            [w EXCEPT !.store[inquiryId] = inquiry,
                      !.stored = Append(@, inquiry.state)], inquiry)

InquiryService_RejectInquiry_SparesDone(w, inquiryId) ==
    IF InquiriesAt(w.store, inquiryId).state = "DONE" THEN w
    ELSE [w EXCEPT !.store[inquiryId] =
                      SetState(InquiriesAt(w.store, inquiryId), "REJECTED"),
                   !.stored = Append(@, "REJECTED")]

InquiryService_RejectInquiry(w, inquiryId) ==
    [w EXCEPT !.store[inquiryId] =
                  SetState(InquiriesAt(w.store, inquiryId), "REJECTED"),
              !.stored = Append(@, "REJECTED")]

\* what a top-level call leaves behind
Observe(op, inquiryId, state, price, before, w) ==
    [op |-> op, inquiryId |-> inquiryId, state |-> state, price |-> price,
     storeBefore |-> before.store, linesBefore |-> Len(before.file),
     onMessage |-> w.onMessage, publish |-> w.publish,
     subscribe |-> w.subscribe, processAdd |-> w.processAdd,
     delivered |-> w.delivered, stored |-> w.stored]

\* one row of inquiries.txt read by InquiryConnector::Subscribe(ifstream&)
InquiryConnector_Subscribe ==
    /\ inquiryOps < MaxInquiries
    /\ \E id \in InquiryIds, p \in Products, side \in Sides,
          q \in InquiryQuantities, price \in InquiryPrices, st \in InquiryStates :
         LET before == InquiryWorld(inquiries_, allinquiries_txt)
             w == InquiryService_OnMessage(before, Inquiry(id, p, side, q, price, st))
         IN  /\ inquiries_' = w.store
             /\ allinquiries_txt' = w.file
             /\ inquiryCall' = Observe("OnMessage", id, st, 0, before, w)
    /\ inquiryOps' = inquiryOps + 1
    /\ UNCHANGED <<bookingVars, marketVars, pricingVars, utilVars>>

SendQuote ==
    /\ inquiryOps < MaxInquiries
    /\ \E id \in InquiryIds, price \in InquiryPrices :
         LET before == InquiryWorld(inquiries_, allinquiries_txt)
             w == InquiryService_SendQuote(before, id, price)
         IN  /\ inquiries_' = w.store
             /\ allinquiries_txt' = w.file
             /\ inquiryCall' = Observe("SendQuote", id, InquiriesAt(inquiries_, id).state, price, before, w)
    /\ inquiryOps' = inquiryOps + 1
    /\ UNCHANGED <<bookingVars, marketVars, pricingVars, utilVars>>

RejectInquiry ==
    /\ inquiryOps < MaxInquiries
    /\ \E id \in InquiryIds :
         LET before == InquiryWorld(inquiries_, allinquiries_txt)
             w == InquiryService_RejectInquiry(before, id)
         IN  /\ inquiries_' = w.store
             /\ allinquiries_txt' = w.file
             /\ inquiryCall' = Observe("RejectInquiry", id, InquiriesAt(inquiries_, id).state, 0, before, w)
    /\ inquiryOps' = inquiryOps + 1
    /\ UNCHANGED <<bookingVars, marketVars, pricingVars, utilVars>>

(***************************************************************************)
(* TradeBookingService -> PositionService -> RiskService                   *)
(***************************************************************************)
Trade(product, tradeId, price, book, quantity, side) ==
    [product |-> product, tradeId |-> tradeId, price |-> price,
     book |-> book, quantity |-> quantity, side |-> side]

\* the productId of a default-constructed product: positions_[product_id]
\* creates its Position without a product
DefaultProductId == ""

NoPositions == [b \in {} |-> 0]

DefaultPosition == [product |-> DefaultProductId, positions |-> NoPositions]

PositionsAt(store, key) ==
    IF store[key] = Absent THEN DefaultPosition ELSE store[key]

Position_AddPosition_SellAdds(position, book, quantity, side) ==
    LET old == IF book \in DOMAIN position.positions
               THEN position.positions[book] ELSE 0
    IN  [position EXCEPT !.positions =
            [b \in (DOMAIN position.positions) \cup {book} |->
                IF b = book THEN old + quantity ELSE position.positions[b]]]

Position_AddPosition_ForgetsBooks(position, book, quantity, side) ==
    LET old == IF book \in DOMAIN position.positions
               THEN position.positions[book] ELSE 0
        new == IF side = "BUY" THEN old + quantity ELSE old - quantity
    IN  [position EXCEPT !.positions = [b \in {book} |-> new]]

Position_AddPosition(position, book, quantity, side) ==
    LET old == IF book \in DOMAIN position.positions
               THEN position.positions[book] ELSE 0
        new == IF side = "BUY" THEN old + quantity ELSE old - quantity
    IN  [position EXCEPT !.positions =
            [b \in (DOMAIN position.positions) \cup {book} |->
                IF b = book THEN new ELSE position.positions[b]]]

RECURSIVE SumOver(_, _)
SumOver(f, S) ==
    IF S = {} THEN 0
    ELSE LET b == CHOOSE x \in S : TRUE
         IN  f[b] + SumOver(f, S \ {b})

Position_GetAggregatePosition(position) ==
    SumOver(position.positions, DOMAIN position.positions)

\* per-million PV01 of a product
GetPV01Value(product_id) ==
    CASE product_id = "91282CFX4" -> 19
      [] product_id = "91282CFW6" -> 28
      [] OTHER -> 0

PV01(product, pv01, quantity) ==
    [product |-> product, pv01 |-> pv01, quantity |-> quantity]

\* The state threaded through one top-level event of the booking pipeline.
World ==
    [trades_ |-> trades_, count_ |-> count_tb, positions_ |-> positions_,
     pv01s_ |-> pv01s_, positions_txt |-> positions_txt, risk_txt |-> risk_txt,
     netReceived |-> netReceived, addTrades |-> <<>>,
     tradesReceived |-> tradesReceived,
     order_books_ |-> order_books_, execution_count_ |-> execution_count_,
     algo_execution_orders_ |-> algo_execution_orders_,
     algoOrders |-> algoOrders, algoExecute |-> algoExecute,
     execution_orders_ |-> execution_orders_, executions_txt |-> executions_txt]

SetWorld(w) ==
    /\ order_books_' = w.order_books_
    /\ execution_count_' = w.execution_count_
    /\ algo_execution_orders_' = w.algo_execution_orders_
    /\ algoOrders' = w.algoOrders
    /\ algoExecute' = w.algoExecute
    /\ execution_orders_' = w.execution_orders_
    /\ executions_txt' = w.executions_txt
    /\ trades_' = w.trades_
    /\ count_tb' = w.count_
    /\ positions_' = w.positions_
    /\ pv01s_' = w.pv01s_
    /\ positions_txt' = w.positions_txt
    /\ risk_txt' = w.risk_txt
    /\ netReceived' = w.netReceived
    /\ addTrades' = w.addTrades
    /\ tradesReceived' = w.tradesReceived

\* listeners of RiskService: historical_risk_service (main.cpp)
RiskService_AddPosition(w, position) ==
    LET product_id == position.product
        quantity == Position_GetAggregatePosition(position)
        pv01 == PV01(position.product, GetPV01Value(product_id), quantity)
    IN  [w EXCEPT !.pv01s_[product_id] = pv01,
                  !.risk_txt = HistoricalDataListener_ProcessAdd(@, pv01)]

PositionToRiskListener_ProcessAdd(w, data) == RiskService_AddPosition(w, data)

\* listeners of PositionService, in the order main.cpp adds them:
\* risk_service, then historical_position_service
PositionService_AddTrade(w, trade) ==
    LET product_id == trade.product
        position == Position_AddPosition(PositionsAt(w.positions_, product_id),
                                         trade.book, trade.quantity, trade.side)
        w1 == [w EXCEPT !.positions_[product_id] = position,
                        !.netReceived[product_id] =
                            IF trade.side = "BUY" THEN @ + trade.quantity
                                                  ELSE @ - trade.quantity]
        w2 == PositionToRiskListener_ProcessAdd(w1, position)
        w3 == [w2 EXCEPT !.positions_txt = HistoricalDataListener_ProcessAdd(@, position)]
    IN  [w3 EXCEPT !.addTrades = Append(@,
            [product |-> product_id,
             aggregate |-> Position_GetAggregatePosition(w3.positions_[product_id]),
             pv01 |-> IF product_id \in DOMAIN w3.pv01s_
                      THEN w3.pv01s_[product_id] ELSE Absent])]

TradeBookingToPositionListener_ProcessAdd(w, data) == PositionService_AddTrade(w, data)

TradeBookingService_OnMessage_StoresOnly(w, data) ==
    [w EXCEPT !.trades_[data.tradeId] = data,
              !.tradesReceived = Append(@, data)]

TradeBookingService_OnMessage_NotifiesTwice(w, data) ==
    TradeBookingToPositionListener_ProcessAdd(
        TradeBookingToPositionListener_ProcessAdd(
            [w EXCEPT !.trades_[data.tradeId] = data,
                      !.tradesReceived = Append(@, data)], data), data)

\* listeners of TradeBookingService: position_service (main.cpp)
TradeBookingService_OnMessage(w, data) ==
    TradeBookingToPositionListener_ProcessAdd(
        [w EXCEPT !.trades_[data.tradeId] = data,
                  !.tradesReceived = Append(@, data)], data)

TradeBookingService_BookTrade_NoFanOut(w, trade) == w

TradeBookingService_BookTrade(w, trade) ==
    TradeBookingToPositionListener_ProcessAdd(w, trade)

(***************************************************************************)
(* ExecutionService and the TradeBooking listener on it                    *)
(***************************************************************************)
ExecutionOrder(product, side, orderId, orderType, price, visibleQuantity, hiddenQuantity, parentOrderId, isChildOrder) ==
    [product |-> product, side |-> side, orderId |-> orderId,
     orderType |-> orderType, price |-> price,
     visibleQuantity |-> visibleQuantity,
     hiddenQuantity |-> hiddenQuantity,
     parentOrderId |-> parentOrderId, isChildOrder |-> isChildOrder]

ExecutionToTradeBookingListener_ProcessAdd_CountsAfter(w, data) ==
    LET count == w.count_ + 1
        side == IF data.side = "BID" THEN "SELL" ELSE "BUY"
        book == CASE w.count_ % 3 = 0 -> "TRSY1"
                  [] w.count_ % 3 = 1 -> "TRSY2"
                  [] w.count_ % 3 = 2 -> "TRSY3"
        quantity == data.visibleQuantity + data.hiddenQuantity
        trade == Trade(data.product, data.orderId, data.price, book, quantity, side)
    IN  TradeBookingService_BookTrade(
            TradeBookingService_OnMessage([w EXCEPT !.count_ = count], trade),
            trade)

ExecutionToTradeBookingListener_ProcessAdd_KeepsSide(w, data) ==
    LET count == w.count_ + 1
        side == IF data.side = "BID" THEN "BUY" ELSE "SELL"
        book == CASE count % 3 = 0 -> "TRSY1"
                  [] count % 3 = 1 -> "TRSY2"
                  [] count % 3 = 2 -> "TRSY3"
        quantity == data.visibleQuantity + data.hiddenQuantity
        trade == Trade(data.product, data.orderId, data.price, book, quantity, side)
    IN  TradeBookingService_BookTrade(
            TradeBookingService_OnMessage([w EXCEPT !.count_ = count], trade),
            trade)

ExecutionToTradeBookingListener_ProcessAdd(w, data) ==
    LET count == w.count_ + 1
        side == IF data.side = "BID" THEN "SELL" ELSE "BUY"
        book == CASE count % 3 = 0 -> "TRSY1"
                  [] count % 3 = 1 -> "TRSY2"
                  [] count % 3 = 2 -> "TRSY3"
        quantity == data.visibleQuantity + data.hiddenQuantity
        trade == Trade(data.product, data.orderId, data.price, book, quantity, side)
    IN  TradeBookingService_BookTrade(
            TradeBookingService_OnMessage([w EXCEPT !.count_ = count], trade),
            trade)

\* listeners of ExecutionService, in the order main.cpp adds them:
\* trade_booking_service, then historical_execution_service
ExecutionListeners_ProcessAdd(w, data) ==
    LET w1 == ExecutionToTradeBookingListener_ProcessAdd(w, data)
    IN  [w1 EXCEPT !.executions_txt = HistoricalDataListener_ProcessAdd(@, data)]

ExecutionService_OnMessage(w, data) ==
    ExecutionListeners_ProcessAdd(
        [w EXCEPT !.execution_orders_[data.product] = data], data)

ExecutionService_ExecuteOrder(w, order, market) ==
    ExecutionListeners_ProcessAdd(
        [w EXCEPT !.execution_orders_[order.product] = order], order)

AlgoExecutionToExecutionListener_ProcessAdd_OnMessageOnly(w, data) ==
    ExecutionService_OnMessage(w, data.order)

AlgoExecutionToExecutionListener_ProcessAdd(w, data) ==
    ExecutionService_ExecuteOrder(
        ExecutionService_OnMessage(w, data.order), data.order, data.market)

(***************************************************************************)
(* MarketDataService and AlgoExecutionService                              *)
(***************************************************************************)
\* AlgoExecutionService::spread_ = 1/128, in 1/256ths
spread_ == 2

Order(price, quantity, side) ==
    [price |-> price, quantity |-> quantity, side |-> side]

OrderBook(product, bidStack, offerStack) ==
    [product |-> product, bidStack |-> bidStack, offerStack |-> offerStack]

RECURSIVE HighestBid(_, _, _)
HighestBid(stack, i, best) ==
    IF i > Len(stack) THEN best
    ELSE HighestBid(stack, i + 1,
                    IF stack[i].price > best.price THEN stack[i] ELSE best)

RECURSIVE LowestOffer(_, _, _)
LowestOffer(stack, i, best) ==
    IF i > Len(stack) THEN best
    ELSE LowestOffer(stack, i + 1,
                     IF stack[i].price < best.price THEN stack[i] ELSE best)

OrderBook_GetBidOffer_LastWins(book, undef) ==
    LET last(stack, price) ==
            stack[CHOOSE i \in 1..Len(stack) :
                      /\ stack[i].price = price
                      /\ \A j \in (i + 1)..Len(stack) : stack[j].price # price]
        prices(stack) == {stack[i].price : i \in 1..Len(stack)}
        highest(stack) == CHOOSE x \in prices(stack) : \A y \in prices(stack) : y <= x
        lowest(stack) == CHOOSE x \in prices(stack) : \A y \in prices(stack) : x <= y
    IN  [bidOrder |-> IF book.bidStack = <<>> THEN undef.order
                      ELSE last(book.bidStack, highest(book.bidStack)),
         offerOrder |-> IF book.offerStack = <<>> THEN undef.order
                        ELSE last(book.offerStack, lowest(book.offerStack))]

\* element 0 of each stack starts the scan; undef.order is what the read of
\* element 0 of an empty stack yields when it does not fault
OrderBook_GetBidOffer(book, undef) ==
    LET bid0 == IF book.bidStack = <<>> THEN undef.order ELSE book.bidStack[1]
        offer0 == IF book.offerStack = <<>> THEN undef.order ELSE book.offerStack[1]
    IN  [bidOrder |-> HighestBid(book.bidStack, 2, bid0),
         offerOrder |-> LowestOffer(book.offerStack, 2, offer0)]

AlgoExecutionOrder_SwapsQuantities(product, side, orderId, orderType, price, visibleQuantity, hiddenQuantity, parentOrderId, isChildOrder, market) ==
    [order |-> ExecutionOrder(product, side, orderId, orderType, price,
                              hiddenQuantity, visibleQuantity, parentOrderId,
                              isChildOrder),
     market |-> market]

AlgoExecutionOrder(product, side, orderId, orderType, price, visibleQuantity, hiddenQuantity, parentOrderId, isChildOrder, market) ==
    [order |-> ExecutionOrder(product, side, orderId, orderType, price,
                              visibleQuantity, hiddenQuantity, parentOrderId,
                              isChildOrder),
     market |-> market]

\* what AlgoExecute leaves behind for the properties to read
ExecuteObservation(order_book, emitted, side, price, quantity) ==
    [called |-> TRUE, book |-> order_book, emitted |-> emitted,
     side |-> side, price |-> price, quantity |-> quantity]

AlgoExecutionService_AlgoExecute_Strict(w, order_book, market, undef) ==
    LET bid_offer == OrderBook_GetBidOffer(order_book, undef)
        bid_order == bid_offer.bidOrder
        offer_order == bid_offer.offerOrder
    IN  IF offer_order.price - bid_order.price < spread_
        THEN LET odd == w.execution_count_ % 2 = 1
                 price == IF odd THEN offer_order.price ELSE bid_order.price
                 quantity == IF odd THEN offer_order.quantity ELSE bid_order.quantity
                 side == IF odd THEN "OFFER" ELSE "BID"
                 algo_execution_order ==
                     AlgoExecutionOrder(order_book.product, side, "", "MARKET", price,
                                        quantity, 0, "", FALSE, market)
                 w1 == [w EXCEPT !.execution_count_ = @ + 1,
                                 !.algoOrders = Append(@, algo_execution_order),
                                 !.algoExecute = ExecuteObservation(
                                     order_book, TRUE, side, price, quantity)]
             IN  AlgoExecutionToExecutionListener_ProcessAdd(w1, algo_execution_order)
        ELSE [w EXCEPT !.algoExecute =
                  ExecuteObservation(order_book, FALSE, "", 0, 0)]

AlgoExecutionService_AlgoExecute_CountsEveryBook(w, order_book, market, undef) ==
    LET bid_offer == OrderBook_GetBidOffer(order_book, undef)
        bid_order == bid_offer.bidOrder
        offer_order == bid_offer.offerOrder
    IN  IF offer_order.price - bid_order.price <= spread_
        THEN LET odd == w.execution_count_ % 2 = 1
                 price == IF odd THEN offer_order.price ELSE bid_order.price
                 quantity == IF odd THEN offer_order.quantity ELSE bid_order.quantity
                 side == IF odd THEN "OFFER" ELSE "BID"
                 algo_execution_order ==
                     AlgoExecutionOrder(order_book.product, side, "", "MARKET", price,
                                        quantity, 0, "", FALSE, market)
                 w1 == [w EXCEPT !.execution_count_ = @ + 1,
                                 !.algoOrders = Append(@, algo_execution_order),
                                 !.algoExecute = ExecuteObservation(
                                     order_book, TRUE, side, price, quantity)]
             IN  AlgoExecutionToExecutionListener_ProcessAdd(w1, algo_execution_order)
        ELSE [w EXCEPT !.execution_count_ = @ + 1,
                       !.algoExecute =
                           ExecuteObservation(order_book, FALSE, "", 0, 0)]

AlgoExecutionService_AlgoExecute_Stores(w, order_book, market, undef) ==
    LET bid_offer == OrderBook_GetBidOffer(order_book, undef)
        bid_order == bid_offer.bidOrder
        offer_order == bid_offer.offerOrder
    IN  IF offer_order.price - bid_order.price <= spread_
        THEN LET odd == w.execution_count_ % 2 = 1
                 price == IF odd THEN offer_order.price ELSE bid_order.price
                 quantity == IF odd THEN offer_order.quantity ELSE bid_order.quantity
                 side == IF odd THEN "OFFER" ELSE "BID"
                 algo_execution_order ==
                     AlgoExecutionOrder(order_book.product, side, "", "MARKET", price,
                                        quantity, 0, "", FALSE, market)
                 w1 == [w EXCEPT !.execution_count_ = @ + 1,
                                 !.algo_execution_orders_[order_book.product] =
                                     algo_execution_order,
                                 !.algoOrders = Append(@, algo_execution_order),
                                 !.algoExecute = ExecuteObservation(
                                     order_book, TRUE, side, price, quantity)]
             IN  AlgoExecutionToExecutionListener_ProcessAdd(w1, algo_execution_order)
        ELSE [w EXCEPT !.algoExecute =
                  ExecuteObservation(order_book, FALSE, "", 0, 0)]

\* algo_execution_orders_ is written only by OnMessage, which nothing calls
AlgoExecutionService_AlgoExecute_CountsPerProduct(w, order_book, market, undef) ==
    LET bid_offer == OrderBook_GetBidOffer(order_book, undef)
        bid_order == bid_offer.bidOrder
        offer_order == bid_offer.offerOrder
        earlier == {i \in 1..Len(w.algoOrders) :
                       w.algoOrders[i].order.product = order_book.product}
    IN  IF offer_order.price - bid_order.price <= spread_
        THEN LET odd == Cardinality(earlier) % 2 = 1
                 price == IF odd THEN offer_order.price ELSE bid_order.price
                 quantity == IF odd THEN offer_order.quantity ELSE bid_order.quantity
                 side == IF odd THEN "OFFER" ELSE "BID"
                 algo_execution_order ==
                     AlgoExecutionOrder(order_book.product, side, "", "MARKET", price,
                                        quantity, 0, "", FALSE, market)
                 w1 == [w EXCEPT !.execution_count_ = @ + 1,
                                 !.algoOrders = Append(@, algo_execution_order),
                                 !.algoExecute = ExecuteObservation(
                                     order_book, TRUE, side, price, quantity)]
             IN  AlgoExecutionToExecutionListener_ProcessAdd(w1, algo_execution_order)
        ELSE [w EXCEPT !.algoExecute =
                  ExecuteObservation(order_book, FALSE, "", 0, 0)]

AlgoExecutionService_AlgoExecute(w, order_book, market, undef) ==
    LET bid_offer == OrderBook_GetBidOffer(order_book, undef)
        bid_order == bid_offer.bidOrder
        offer_order == bid_offer.offerOrder
    IN  IF offer_order.price - bid_order.price <= spread_
        THEN LET odd == w.execution_count_ % 2 = 1
                 price == IF odd THEN offer_order.price ELSE bid_order.price
                 quantity == IF odd THEN offer_order.quantity ELSE bid_order.quantity
                 side == IF odd THEN "OFFER" ELSE "BID"
                 algo_execution_order ==
                     AlgoExecutionOrder(order_book.product, side, "", "MARKET", price,
                                        quantity, 0, "", FALSE, market)
                 w1 == [w EXCEPT !.execution_count_ = @ + 1,
                                 !.algoOrders = Append(@, algo_execution_order),
                                 !.algoExecute = ExecuteObservation(
                                     order_book, TRUE, side, price, quantity)]
             IN  AlgoExecutionToExecutionListener_ProcessAdd(w1, algo_execution_order)
        ELSE [w EXCEPT !.algoExecute =
                  ExecuteObservation(order_book, FALSE, "", 0, 0)]

MarketDataToAlgoExecutionListener_ProcessAdd(w, data, undef) ==
    AlgoExecutionService_AlgoExecute(w, data, "BROKERTEC", undef)

\* listeners of MarketDataService: algo_execution_service (main.cpp)
MarketDataService_OnMessage(w, book, undef) ==
    MarketDataToAlgoExecutionListener_ProcessAdd(
        [w EXCEPT !.order_books_[book.product] = book], book, undef)

\* GetBidOffer faults on this book
Faults(book, undef) ==
    /\ book.bidStack = <<>> \/ book.offerStack = <<>>
    /\ undef.emptyStack = "fault"

book_depth_ == BookDepth

FetchBond(product_id) == product_id

\* what a call of AggregateDepth or GetBestBidOffer leaves behind; `repeat`
\* says that the call before it, with no record read in between, was an
\* AggregateDepth of the same product
NoQuery ==
    [op |-> "none", productId |-> "", threw |-> FALSE, repeat |-> FALSE,
     before |-> OrderBook("", <<>>, <<>>), after |-> OrderBook("", <<>>, <<>>),
     bidOffer |-> [bidOrder |-> Order(0, 0, "BID"), offerOrder |-> Order(0, 0, "BID")]]

RECURSIVE QuantityAt(_, _, _)
QuantityAt(stack, i, price) ==
    IF i > Len(stack) THEN 0
    ELSE (IF stack[i].price = price THEN stack[i].quantity ELSE 0)
         + QuantityAt(stack, i + 1, price)

MarketDataService_AggregateStack_KeepsFirst(original_stack) ==
    LET order_map == {original_stack[i].price : i \in 1..Len(original_stack)}
        n == Cardinality(order_map)
        first(price) == CHOOSE i \in 1..Len(original_stack) :
                            /\ original_stack[i].price = price
                            /\ \A j \in 1..(i - 1) : original_stack[j].price # price
    IN  {[i \in 1..n |-> Order(f[i], original_stack[first(f[i])].quantity, "BID")] :
            f \in {g \in [1..n -> order_map] :
                      \A i \in 1..n, j \in 1..n : i # j => g[i] # g[j]}}

MarketDataService_AggregateStack_Doubles(original_stack) ==
    LET order_map == {original_stack[i].price : i \in 1..Len(original_stack)}
        n == Cardinality(order_map)
    IN  {[i \in 1..n |-> Order(f[i], 2 * QuantityAt(original_stack, 1, f[i]), "BID")] :
            f \in {g \in [1..n -> order_map] :
                      \A i \in 1..n, j \in 1..n : i # j => g[i] # g[j]}}

\* the orders of order_map, in each order the iteration of an unordered_map
\* may produce them; every aggregated order is built with side BID
MarketDataService_AggregateStack(original_stack) ==
    LET order_map == {original_stack[i].price : i \in 1..Len(original_stack)}
        n == Cardinality(order_map)
    IN  {[i \in 1..n |-> Order(f[i], QuantityAt(original_stack, 1, f[i]), "BID")] :
            f \in {g \in [1..n -> order_map] :
                      \A i \in 1..n, j \in 1..n : i # j => g[i] # g[j]}}

\* a call of MarketDataService::AggregateDepth; order_books_.at throws when
\* no book is stored under productId, and the store is then left as it is
MarketDataService_AggregateDepth ==
    /\ ~faulted
    /\ \E productId \in Products :
         LET repeat == bookQuery.op = "AggregateDepth" /\ ~bookQuery.threw
                       /\ bookQuery.productId = productId
             book == order_books_[productId]
         IN  IF book = Absent
             THEN /\ bookQuery' = [NoQuery EXCEPT !.op = "AggregateDepth",
                                                 !.productId = productId,
                                                 !.threw = TRUE]
                  /\ UNCHANGED order_books_
             ELSE \E aggregated_bid_stack \in MarketDataService_AggregateStack(book.bidStack),
                     aggregated_offer_stack \in MarketDataService_AggregateStack(book.offerStack) :
                    LET aggregated_order_book ==
                            OrderBook(book.product, aggregated_bid_stack,
                                      aggregated_offer_stack)
                    IN  /\ order_books_' = [order_books_ EXCEPT
                                               ![productId] = aggregated_order_book]
                        /\ bookQuery' = [NoQuery EXCEPT !.op = "AggregateDepth",
                                                       !.productId = productId,
                                                       !.repeat = repeat,
                                                       !.before = book,
                                                       !.after = aggregated_order_book]
    /\ UNCHANGED <<utilVars, inquiryVars, bookingVars, pricingVars, bid_stack, offer_stack,
                   order_count, recordsRead, marketdata_txt, booksDelivered, execution_count_,
                   algo_execution_orders_,
                   algoOrders, algoExecute, execution_orders_, executions_txt,
                   faulted>>

\* a call of MarketDataService::GetBestBidOffer; find() of a product with no
\* stored book yields end(), and reading through it is undefined
MarketDataService_GetBestBidOffer ==
    /\ ~faulted
    /\ \E productId \in Products, undef \in UndefinedReads :
         LET book == order_books_[productId]
         IN  IF book = Absent
             THEN /\ faulted' = (undef.emptyStack = "fault")
                  /\ bookQuery' = [NoQuery EXCEPT
                        !.op = "GetBestBidOffer", !.productId = productId,
                        !.threw = TRUE,
                        !.bidOffer = [bidOrder |-> undef.order,
                                      offerOrder |-> undef.order]]
             ELSE /\ faulted' = Faults(book, undef)
                  /\ bookQuery' = [NoQuery EXCEPT
                        !.op = "GetBestBidOffer", !.productId = productId,
                        !.before = book, !.after = book,
                        !.bidOffer = IF Faults(book, undef) THEN @
                                     ELSE OrderBook_GetBidOffer(book, undef)]
    /\ UNCHANGED <<utilVars, inquiryVars, bookingVars, pricingVars, bid_stack, offer_stack,
                   order_count, recordsRead, marketdata_txt, order_books_, booksDelivered,
                   execution_count_, algo_execution_orders_, algoOrders,
                   algoExecute, execution_orders_,
                   executions_txt>>

MarketDataConnector_Subscribe_Prepends ==
    /\ ~faulted
    /\ recordsRead < MaxRecords
    /\ \E row \in MarketDataRows, undef \in UndefinedReads :
         LET read_lines == 2 * book_depth_
             order == Order(row.price, row.quantity, row.side)
             bids == IF row.side = "BID" THEN <<order>> \o bid_stack ELSE bid_stack
             offers == IF row.side = "BID" THEN offer_stack
                       ELSE Append(offer_stack, order)
             orderbook == OrderBook(FetchBond(row.product), bids, offers)
         IN  /\ marketdata_txt' = Append(marketdata_txt, row)
             /\ IF order_count + 1 = read_lines
                THEN /\ bid_stack' = <<>>
                     /\ offer_stack' = <<>>
                     /\ order_count' = 0
                     /\ booksDelivered' = Append(booksDelivered, orderbook)
                     /\ faulted' = Faults(orderbook, undef)
                     /\ \E w \in {IF Faults(orderbook, undef)
                                   THEN [World EXCEPT
                                            !.order_books_[orderbook.product] = orderbook]
                                   ELSE MarketDataService_OnMessage(World, orderbook, undef)} :
                           SetWorld(w)
                ELSE /\ bid_stack' = bids
                     /\ offer_stack' = offers
                     /\ order_count' = order_count + 1
                     /\ SetWorld(World)
                     /\ UNCHANGED <<booksDelivered, faulted>>
    /\ recordsRead' = recordsRead + 1
    /\ bookQuery' = NoQuery
    /\ UNCHANGED <<utilVars, inquiryVars, pricingVars, tradeRows>>

\* one iteration of the loop of MarketDataConnector::Subscribe: one record
MarketDataConnector_Subscribe ==
    /\ ~faulted
    /\ recordsRead < MaxRecords
    /\ \E row \in MarketDataRows, undef \in UndefinedReads :
         LET read_lines == 2 * book_depth_
             order == Order(row.price, row.quantity, row.side)
             bids == IF row.side = "BID" THEN Append(bid_stack, order) ELSE bid_stack
             offers == IF row.side = "BID" THEN offer_stack
                       ELSE Append(offer_stack, order)
             orderbook == OrderBook(FetchBond(row.product), bids, offers)
         IN  /\ marketdata_txt' = Append(marketdata_txt, row)
             /\ IF order_count + 1 = read_lines
                THEN /\ bid_stack' = <<>>
                     /\ offer_stack' = <<>>
                     /\ order_count' = 0
                     /\ booksDelivered' = Append(booksDelivered, orderbook)
                     /\ faulted' = Faults(orderbook, undef)
                     /\ \E w \in {IF Faults(orderbook, undef)
                                   THEN [World EXCEPT
                                            !.order_books_[orderbook.product] = orderbook]
                                   ELSE MarketDataService_OnMessage(World, orderbook, undef)} :
                           SetWorld(w)
                ELSE /\ bid_stack' = bids
                     /\ offer_stack' = offers
                     /\ order_count' = order_count + 1
                     /\ SetWorld(World)
                     /\ UNCHANGED <<booksDelivered, faulted>>
    /\ recordsRead' = recordsRead + 1
    /\ bookQuery' = NoQuery
    /\ UNCHANGED <<utilVars, inquiryVars, pricingVars, tradeRows>>

NoExecute ==
    [called |-> FALSE, book |-> OrderBook("", <<>>, <<>>), emitted |-> FALSE,
     side |-> "", price |-> 0, quantity |-> 0]

\* the stacks GetBestBidOffer is applied to when it is checked on its own:
\* non-empty, with repeated prices among them
BidStacks ==
    LET orders == {[price |-> 25600, quantity |-> 1000000, side |-> "BID"],
                   [price |-> 25600, quantity |-> 5000000, side |-> "BID"],
                   [price |-> 25602, quantity |-> 2000000, side |-> "BID"]}
    IN  UNION {[1..n -> orders] : n \in 1..MaxStack}

OfferStacks ==
    LET orders == {[price |-> 25602, quantity |-> 3000000, side |-> "OFFER"],
                   [price |-> 25603, quantity |-> 4000000, side |-> "OFFER"],
                   [price |-> 25602, quantity |-> 6000000, side |-> "OFFER"]}
    IN  UNION {[1..n -> orders] : n \in 1..MaxStack}

InitMarketDataService ==
    order_books_ = [p \in Products |-> Absent]

\* one book already delivered to MarketDataService::OnMessage
InitStoredBook ==
    \E p \in Products, bids \in BidStacks, offers \in OfferStacks :
        order_books_ = [q \in Products |->
                           IF q = p THEN OrderBook(p, bids, offers) ELSE Absent]

InitMarket ==
    /\ bid_stack = <<>>
    /\ offer_stack = <<>>
    /\ order_count = 0
    /\ recordsRead = 0
    /\ marketdata_txt = <<>>
    /\ booksDelivered = <<>>
    /\ execution_count_ = 0
    /\ algo_execution_orders_ = [p \in Products |-> Absent]
    /\ algoOrders = <<>>
    /\ algoExecute = NoExecute
    /\ execution_orders_ = [p \in Products |-> Absent]
    /\ executions_txt = <<>>
    /\ faulted = FALSE
    /\ bookQuery = NoQuery

\* one row of trades.txt read by TradeBookingConnector::Subscribe
TradeBookingConnector_Subscribe ==
    /\ ~faulted
    /\ tradeRows < MaxTrades
    /\ \E p \in Products, id \in TradeIds, price \in TradePrices,
          book \in TradeBooks, q \in TradeQuantities, side \in Sides :
         \E w \in {TradeBookingService_OnMessage(
                       World, Trade(p, id, price, book, q, side))} :
            SetWorld(w)
    /\ tradeRows' = tradeRows + 1
    /\ UNCHANGED <<utilVars, inquiryVars, pricingVars, bid_stack, offer_stack, order_count,
                   recordsRead, marketdata_txt, booksDelivered, faulted, bookQuery>>

(***************************************************************************)
(* GetData.  unordered_map::at throws std::out_of_range for a key that is  *)
(* not stored; operator[] inserts a value-initialised entry and returns it. *)
(***************************************************************************)
map_at(service, store, key) ==
    [service |-> service, key |-> key, seen |-> store[key] # Absent,
     threw |-> store[key] = Absent, value |-> store[key], stored |-> store[key]]

map_subscript(service, store, key, default) ==
    [service |-> service, key |-> key, seen |-> store[key] # Absent,
     threw |-> FALSE, value |-> IF store[key] = Absent THEN default ELSE store[key],
     stored |-> store[key]]

MarketDataService_GetData ==
    /\ ~faulted
    /\ \E product_id \in DOMAIN order_books_ :
         getData' = map_at("MarketDataService", order_books_, product_id)
    /\ UNCHANGED <<inquiryVars, bookingVars, marketVars, pricingVars, codec, tradeLines,
                   bucketedRisk>>

ExecutionService_GetData ==
    /\ ~faulted
    /\ \E product_id \in DOMAIN execution_orders_ :
         getData' = map_at("ExecutionService", execution_orders_, product_id)
    /\ UNCHANGED <<inquiryVars, bookingVars, marketVars, pricingVars, codec, tradeLines,
                   bucketedRisk>>

TradeBookingService_GetData_Subscript ==
    /\ ~faulted
    /\ \E product_id \in DOMAIN trades_ :
         LET found == map_subscript("TradeBookingService", trades_, product_id,
                                     Trade(DefaultProductId, "", 0, "", 0, "BUY"))
         IN  /\ trades_' = [trades_ EXCEPT ![product_id] = found.value]
             /\ getData' = [found EXCEPT !.stored = trades_'[product_id]]
    /\ UNCHANGED <<inquiryVars, count_tb, positions_, pv01s_, positions_txt,
                   risk_txt, netReceived, addTrades, tradeRows, tradesReceived,
                   marketVars, pricingVars, codec, tradeLines,
                   bucketedRisk>>

TradeBookingService_GetData ==
    /\ ~faulted
    /\ \E product_id \in DOMAIN trades_ :
         getData' = map_at("TradeBookingService", trades_, product_id)
    /\ UNCHANGED <<inquiryVars, bookingVars, marketVars, pricingVars, codec, tradeLines,
                   bucketedRisk>>

\* PV01() = default: the inserted entry is value-initialised
RiskService_GetData ==
    /\ ~faulted
    /\ \E product_id \in DOMAIN pv01s_ :
         LET found == map_subscript("RiskService", pv01s_, product_id,
                                     PV01(DefaultProductId, 0, 0))
         IN  /\ pv01s_' = [pv01s_ EXCEPT ![product_id] = found.value]
             /\ getData' = [found EXCEPT !.stored = pv01s_'[product_id]]
    /\ UNCHANGED <<inquiryVars, trades_, count_tb, positions_, positions_txt,
                   risk_txt, netReceived, addTrades, tradeRows, tradesReceived,
                   marketVars, pricingVars, codec, tradeLines,
                   bucketedRisk>>

\* the entry inserted by inquiries_[key] is a value-initialised Inquiry
InquiryService_GetData ==
    /\ ~faulted
    /\ \E key \in DOMAIN inquiries_ :
         LET found == map_subscript("InquiryService", inquiries_, key,
                           Inquiry("", DefaultProductId, "BUY", 0, 0, "RECEIVED"))
         IN  /\ inquiries_' = [inquiries_ EXCEPT ![key] = found.value]
             /\ getData' = [found EXCEPT !.stored = inquiries_'[key]]
    /\ UNCHANGED <<allinquiries_txt, inquiryCall, inquiryOps, bookingVars,
                   marketVars, pricingVars, codec, tradeLines,
                   bucketedRisk>>

(***************************************************************************)
(* RiskService::OnMessage and RiskService::GetBucketedRisk.                *)
(* GetBucketedRisk returns a reference to a temporary that is destroyed     *)
(* when the function returns; what the caller reads through it is either    *)
(* what the temporary held or whatever has taken its place.                 *)
(***************************************************************************)
\* the sectors GetBucketedRisk is asked for: the products of a sector
Sectors == SUBSET Products

\* the aggregate positions of the PV01s handed to RiskService::OnMessage
RiskQuantities == {1000000, -500000}

\* what a read through the dangling reference can yield besides the
\* temporary's own fields
DanglingReads == {[pv01 |-> 0, quantity |-> 0], [pv01 |-> 28, quantity |-> 1000000]}

NoBucketedRisk ==
    [called |-> FALSE, sector |-> {}, storeBefore |-> <<>>, sum |-> 0,
     pv01 |-> 0, quantity |-> 0]

RiskService_OnMessage ==
    /\ ~faulted
    /\ \E p \in Products, q \in RiskQuantities :
         pv01s_' = [pv01s_ EXCEPT ![p] = PV01(p, GetPV01Value(p), q)]
    /\ UNCHANGED <<inquiryVars, trades_, count_tb, positions_, positions_txt,
                   risk_txt, netReceived, addTrades, tradeRows, tradesReceived,
                   marketVars, pricingVars, utilVars>>

\* pv01s_[product_id] inserts a value-initialised PV01 for a product that
\* has none; PV01() = default, so it reads pv01 = 0 and quantity = 0
RiskService_GetBucketedRisk_Loop(store, products) ==
    LET after == [k \in DOMAIN store |->
                    IF k \in products /\ store[k] = Absent
                    THEN PV01(DefaultProductId, 0, 0) ELSE store[k]]
        term == [k \in products |-> after[k].pv01 * after[k].quantity]
    IN  [store |-> after, pv01 |-> SumOver(term, products)]

RiskService_GetBucketedRisk ==
    /\ ~faulted
    /\ \E sector \in Sectors :
         LET loop == RiskService_GetBucketedRisk_Loop(pv01s_, sector)
             quantity == 1
         IN  /\ pv01s_' = loop.store
             /\ \E read \in {[pv01 |-> loop.pv01, quantity |-> quantity]}
                              \cup DanglingReads :
                   bucketedRisk' =
                       [called |-> TRUE, sector |-> sector, storeBefore |-> pv01s_,
                        sum |-> loop.pv01, pv01 |-> read.pv01,
                        quantity |-> read.quantity]
    /\ UNCHANGED <<inquiryVars, trades_, count_tb, positions_, positions_txt,
                   risk_txt, netReceived, addTrades, tradeRows, tradesReceived,
                   marketVars, pricingVars, codec, tradeLines, getData>>

\* the lines trades.txt is drawn from when it is read as text, each line
\* split at its commas: two well-formed lines, a line with an unknown
\* product, one with an invalid side, one with an invalid price, and one
\* with too few fields
TradeLines ==
    {<<"91282CFX4", "T1", <<"1", "0", "0", "-", "0", "0", "0">>, "TRSY1",
       <<"5", "0", "0", "0", "0", "0">>, "BUY">>,
     <<"91282CFW6", "T2", <<"9", "9", "-", "3", "1", "+">>, "TRSY2",
       <<"1", "0", "0", "0", "0", "0", "0">>, "SELL">>,
     <<UnknownProductId, "T1", <<"1", "0", "0", "-", "0", "0", "0">>, "TRSY1",
       <<"5", "0", "0", "0", "0", "0">>, "BUY">>,
     <<"91282CFX4", "T2", <<"1", "0", "0", "-", "0", "0", "0">>, "TRSY1",
       <<"5", "0", "0", "0", "0", "0">>, "HOLD">>,
     <<"91282CFX4", "T1", <<"a", "b", "c", "-", "0", "0", "0">>, "TRSY1",
       <<"5", "0", "0", "0", "0", "0">>, "BUY">>,
     <<"91282CFW6", "T2", <<"9", "9", "-", "3", "1", "+">>>>}

\* what the body of the loop in TradeBookingConnector::Subscribe does with
\* the entries of one line: the trade it hands to OnMessage, or the end of
\* the process when stoi or stol throws.  line_entries[i] beyond the end
\* of the vector is an undefined read: the process ends or the entries
\* read are those of some line that starts with the entries present.
TradeBookingConnector_Parse(line_entries) ==
    LET parsed(entries) ==
            LET price == ConvertPrice_string(entries[3])
                quantity == stoi(entries[5])
                side == IF entries[6] = "BUY" THEN "BUY" ELSE "SELL"
            IN  IF price = Throws \/ quantity = Throws
                THEN [terminated |-> TRUE]
                ELSE [terminated |-> FALSE,
                      trade |-> Trade(FetchBond(entries[1]), entries[2], price,
                                      entries[4], quantity, side)]
    IN  IF Len(line_entries) >= 6 THEN {parsed(line_entries)}
        ELSE {[terminated |-> TRUE]} \cup
             {parsed(l) : l \in {m \in TradeLines :
                                    /\ Len(m) >= 6
                                    /\ SubSeq(m, 1, Len(line_entries)) = line_entries}}

\* one line of trades.txt, given as text
\* one row of trades.txt whose quantity is one of PositionQuantities; the
\* trade ids of successive rows differ
TradeBookingConnector_Subscribe_Positions ==
    /\ ~faulted
    /\ tradeRows < MaxPositionRows
    /\ \E p \in Products, book \in TradeBooks, q \in PositionQuantities, side \in Sides :
         \E w \in {TradeBookingService_OnMessage(
                       World, Trade(p, IF tradeRows % 2 = 0 THEN "T1" ELSE "T2",
                                    25600, book, q, side))} :
            SetWorld(w)
    /\ tradeRows' = tradeRows + 1
    /\ UNCHANGED <<utilVars, inquiryVars, pricingVars, bid_stack, offer_stack, order_count,
                   recordsRead, marketdata_txt, booksDelivered, faulted, bookQuery>>

TradeBookingConnector_Subscribe_Text ==
    /\ ~faulted
    /\ Len(tradeLines) < MaxTradeLines
    /\ \E line_entries \in TradeLines :
         /\ tradeLines' = Append(tradeLines, line_entries)
         /\ \E outcome \in TradeBookingConnector_Parse(line_entries) :
              IF outcome.terminated
              THEN /\ faulted' = TRUE
                   /\ \E w \in {World} : SetWorld(w)
              ELSE /\ faulted' = FALSE
                   /\ \E w \in {TradeBookingService_OnMessage(World, outcome.trade)} :
                        SetWorld(w)
    /\ tradeRows' = tradeRows + 1
    /\ UNCHANGED <<inquiryVars, pricingVars, bid_stack, offer_stack, order_count,
                   recordsRead, marketdata_txt, booksDelivered, bookQuery, codec, getData, bucketedRisk>>

InitBooking ==
    /\ trades_ = [id \in TradeIds \cup {""} |-> Absent]
    /\ count_tb = 0
    /\ positions_ = [p \in Products \cup {UnknownProductId} |-> Absent]
    /\ pv01s_ = [p \in Products \cup {DefaultProductId} |-> Absent]
    /\ positions_txt = <<>>
    /\ risk_txt = <<>>
    /\ netReceived = [p \in Products \cup {UnknownProductId} |-> 0]
    /\ addTrades = <<>>
    /\ tradeRows = 0
    /\ tradesReceived = <<>>

(***************************************************************************)
(* PricingService -> AlgoStreamingService -> StreamingService, GUIService  *)
(* Prices of this pipeline are integers counting 1/512ths, so that the mid *)
(* of two prices on the 1/256 grid is an integer.                           *)
(***************************************************************************)
\* GUIService::throttle_, in milliseconds
throttle_ == 300

Price(product, mid, bidOfferSpread, row) ==
    [product |-> product, mid |-> mid, bidOfferSpread |-> bidOfferSpread,
     row |-> row]

PriceStreamOrder(price, visibleQuantity, hiddenQuantity, side) ==
    [price |-> price, visibleQuantity |-> visibleQuantity,
     hiddenQuantity |-> hiddenQuantity, side |-> side]

PriceStream(product, bidOrder, offerOrder) ==
    [product |-> product, bidOrder |-> bidOrder, offerOrder |-> offerOrder]

AlgoStream(product, bid_order, offer_order) ==
    [price_stream |-> PriceStream(product, bid_order, offer_order)]

\* The state threaded through one row of prices.txt.
PriceWorld ==
    [count_ |-> count_as, algo_streams_ |-> algo_streams_,
     algoStreams |-> algoStreams, price_streams_ |-> price_streams_,
     streaming_txt |-> streaming_txt, guis_ |-> guis_, millisec_ |-> millisec_,
     gui_txt |-> gui_txt]

SetPriceWorld(w) ==
    /\ count_as' = w.count_
    /\ algo_streams_' = w.algo_streams_
    /\ algoStreams' = w.algoStreams
    /\ price_streams_' = w.price_streams_
    /\ streaming_txt' = w.streaming_txt
    /\ guis_' = w.guis_
    /\ millisec_' = w.millisec_
    /\ gui_txt' = w.gui_txt

StreamingService_OnMessage_FansOut(w, data) ==
    [w EXCEPT !.price_streams_[data.product] = data,
              !.streaming_txt = HistoricalDataListener_ProcessAdd(@, data)]

\* the loop over the listeners is commented out in the source
StreamingService_OnMessage(w, data) ==
    [w EXCEPT !.price_streams_[data.product] = data]

\* listeners of StreamingService: historical_streaming_service (main.cpp)
StreamingService_PublishPrice(w, price_stream) ==
    [w EXCEPT !.streaming_txt = HistoricalDataListener_ProcessAdd(@, price_stream)]

AlgoStreamingToStreamingListener_ProcessAdd(w, data) ==
    StreamingService_PublishPrice(
        StreamingService_OnMessage(w, data.price_stream), data.price_stream)

AlgoStreamingService_AlgoPublishPrice_CountsTwice(w, price) ==
    LET bid_price == price.mid - price.bidOfferSpread \div 2
        offer_price == price.mid + price.bidOfferSpread \div 2
        visible_quantity == ((w.count_ % 2) + 1) * 1000000
        hidden_quantity == visible_quantity * 2
        algo_stream ==
            AlgoStream(price.product,
                PriceStreamOrder(bid_price, visible_quantity, hidden_quantity, "BID"),
                PriceStreamOrder(offer_price, visible_quantity, hidden_quantity, "OFFER"))
    IN  AlgoStreamingToStreamingListener_ProcessAdd(
            [w EXCEPT !.count_ = @ + 2,
                      !.algo_streams_[price.product] = algo_stream,
                      !.algoStreams = Append(@, algo_stream)],
            algo_stream)

AlgoStreamingService_AlgoPublishPrice_FullSpread(w, price) ==
    LET bid_price == price.mid - price.bidOfferSpread
        offer_price == price.mid + price.bidOfferSpread
        visible_quantity == ((w.count_ % 2) + 1) * 1000000
        hidden_quantity == visible_quantity * 2
        algo_stream ==
            AlgoStream(price.product,
                PriceStreamOrder(bid_price, visible_quantity, hidden_quantity, "BID"),
                PriceStreamOrder(offer_price, visible_quantity, hidden_quantity, "OFFER"))
    IN  AlgoStreamingToStreamingListener_ProcessAdd(
            [w EXCEPT !.count_ = @ + 1,
                      !.algo_streams_[price.product] = algo_stream,
                      !.algoStreams = Append(@, algo_stream)],
            algo_stream)

AlgoStreamingService_AlgoPublishPrice_SwapsSides(w, price) ==
    LET bid_price == price.mid - price.bidOfferSpread \div 2
        offer_price == price.mid + price.bidOfferSpread \div 2
        visible_quantity == ((w.count_ % 2) + 1) * 1000000
        hidden_quantity == visible_quantity * 2
        algo_stream ==
            AlgoStream(price.product,
                PriceStreamOrder(offer_price, visible_quantity, hidden_quantity, "BID"),
                PriceStreamOrder(bid_price, visible_quantity, hidden_quantity, "OFFER"))
    IN  AlgoStreamingToStreamingListener_ProcessAdd(
            [w EXCEPT !.count_ = @ + 1,
                      !.algo_streams_[price.product] = algo_stream,
                      !.algoStreams = Append(@, algo_stream)],
            algo_stream)

\* listeners of AlgoStreamingService: streaming_service (main.cpp)
AlgoStreamingService_AlgoPublishPrice(w, price) ==
    LET bid_price == price.mid - price.bidOfferSpread \div 2
        offer_price == price.mid + price.bidOfferSpread \div 2
        visible_quantity == ((w.count_ % 2) + 1) * 1000000
        hidden_quantity == visible_quantity * 2
        algo_stream ==
            AlgoStream(price.product,
                PriceStreamOrder(bid_price, visible_quantity, hidden_quantity, "BID"),
                PriceStreamOrder(offer_price, visible_quantity, hidden_quantity, "OFFER"))
    IN  AlgoStreamingToStreamingListener_ProcessAdd(
            [w EXCEPT !.count_ = @ + 1,
                      !.algo_streams_[price.product] = algo_stream,
                      !.algoStreams = Append(@, algo_stream)],
            algo_stream)

PricingToAlgoStreamingListener_ProcessAdd(w, data) ==
    AlgoStreamingService_AlgoPublishPrice(w, data)

\* the reading of a monotonic millisecond clock
GetMillisecond(now) == now

RECURSIVE CatchUp(_, _)
CatchUp(millisec_now, millisec) ==
    IF millisec_now < millisec THEN CatchUp(millisec_now + 1000, millisec)
    ELSE millisec_now

\* a line of gui.txt: the clock reading it was written at and the price
GuiLine(millisec_now, data) == [at |-> millisec_now, price |-> data]

GUIConnector_Publish_KeepsMillisec(w, data, now) ==
    LET millisec_now == CatchUp(GetMillisecond(now), w.millisec_)
    IN  IF millisec_now - w.millisec_ >= throttle_
        THEN [w EXCEPT !.gui_txt = Append(@, GuiLine(millisec_now, data))]
        ELSE w

GUIConnector_Publish_Strict(w, data, now) ==
    LET millisec_now == CatchUp(GetMillisecond(now), w.millisec_)
    IN  IF millisec_now - w.millisec_ > throttle_
        THEN [w EXCEPT !.millisec_ = millisec_now,
                       !.gui_txt = Append(@, GuiLine(millisec_now, data))]
        ELSE w

GUIConnector_Publish(w, data, now) ==
    LET millisec_now == CatchUp(GetMillisecond(now), w.millisec_)
    IN  IF millisec_now - w.millisec_ >= throttle_
        THEN [w EXCEPT !.millisec_ = millisec_now,
                       !.gui_txt = Append(@, GuiLine(millisec_now, data))]
        ELSE w

GUIService_OnMessage(w, data, now) ==
    GUIConnector_Publish([w EXCEPT !.guis_[data.product] = data], data, now)

PricingToGUIListener_ProcessAdd(w, data, now) == GUIService_OnMessage(w, data, now)

\* listeners of PricingService, in the order main.cpp adds them:
\* algo_streaming_service, then gui_service
PricingService_OnMessage(w, data, now) ==
    PricingToGUIListener_ProcessAdd(
        PricingToAlgoStreamingListener_ProcessAdd(w, data), data, now)

\* one row of prices.txt read by PricingConnector::Subscribe, `elapsed`
\* milliseconds after the row before it
PricingConnector_Subscribe ==
    /\ ~faulted
    /\ priceRows < MaxPrices
    /\ \E row \in PriceRows, elapsed \in ClockSteps :
         LET now == clock + elapsed
             mid_price == row.bid + row.ask
             spread == 2 * (row.ask - row.bid)
             price == Price(FetchBond(row.product), mid_price, spread, priceRows + 1)
         IN  /\ clock' = now
             /\ \E w \in {PricingService_OnMessage(PriceWorld, price, now)} :
                   /\ SetPriceWorld(w)
                   /\ guiPublish' = [called |-> TRUE, now |-> now, row |-> priceRows + 1,
                                     millisecBefore |-> millisec_,
                                     linesBefore |-> Len(gui_txt)]
             /\ prices_txt' = Append(prices_txt, row)
    /\ priceRows' = priceRows + 1
    /\ UNCHANGED <<utilVars, inquiryVars, bookingVars, marketVars>>

InitPricing ==
    /\ clock = 0
    /\ priceRows = 0
    /\ prices_txt = <<>>
    /\ count_as = 0
    /\ algo_streams_ = [p \in Products |-> Absent]
    /\ algoStreams = <<>>
    /\ price_streams_ = [p \in Products |-> Absent]
    /\ streaming_txt = <<>>
    /\ guis_ = [p \in Products |-> Absent]
    /\ millisec_ = 0
    /\ gui_txt = <<>>
    /\ guiPublish = [called |-> FALSE, now |-> 0, row |-> 0, millisecBefore |-> 0,
                     linesBefore |-> 0]

NoCall ==
    [op |-> "none", inquiryId |-> "", state |-> "", price |-> 0,
     storeBefore |-> [id \in InquiryIds |-> Absent], linesBefore |-> 0,
     onMessage |-> 0, publish |-> 0, subscribe |-> 0, processAdd |-> <<>>,
     delivered |-> <<>>, stored |-> <<>>]

InitInquiry ==
    /\ inquiries_ = [id \in InquiryIds |-> Absent]
    /\ allinquiries_txt = <<>>
    /\ inquiryCall = NoCall
    /\ inquiryOps = 0

InitUtil ==
    /\ codec = NoCodec
    /\ tradeLines = <<>>
    /\ getData = NoGetData
    /\ bucketedRisk = NoBucketedRisk

Init ==
    /\ InitInquiry /\ InitBooking /\ InitMarket /\ InitMarketDataService
    /\ InitPricing /\ InitUtil

\* the codec is given one price of the 1/256 grid from GridLow to GridHigh
InitCodec ==
    /\ InitInquiry /\ InitBooking /\ InitMarket /\ InitMarketDataService
    /\ InitPricing /\ tradeLines = <<>> /\ getData = NoGetData
    /\ bucketedRisk = NoBucketedRisk
    /\ \E p \in (GridLow * 256)..(GridHigh * 256) :
          codec = [NoCodec EXCEPT !.step = "price", !.price = p]

InitBestBidOffer ==
    /\ InitInquiry /\ InitBooking /\ InitMarket /\ InitStoredBook
    /\ InitPricing /\ InitUtil

NextInquiry ==
    \/ InquiryConnector_Subscribe
    \/ SendQuote
    \/ RejectInquiry

SpecInquiry == Init /\ [][NextInquiry]_vars

NextTrades == TradeBookingConnector_Subscribe

SpecTrades == Init /\ [][NextTrades]_vars

NextPricing == PricingConnector_Subscribe

SpecPricing == Init /\ [][NextPricing]_vars

NextMarketData == MarketDataConnector_Subscribe

NextBookQueries ==
    \/ recordsRead < MaxQueryRecords /\ MarketDataConnector_Subscribe
    \/ MarketDataService_AggregateDepth
    \/ MarketDataService_GetBestBidOffer

SpecBookQueries == Init /\ [][NextBookQueries]_vars

NextBestBidOffer == MarketDataService_GetBestBidOffer

SpecBestBidOffer == InitBestBidOffer /\ [][NextBestBidOffer]_vars

NextTradeFile == TradeBookingConnector_Subscribe_Text

SpecTradeFile == Init /\ [][NextTradeFile]_vars

NextGetData ==
    \/ tradeRows < MaxGetDataRows /\ TradeBookingConnector_Subscribe
    \/ MarketDataService_GetData
    \/ ExecutionService_GetData
    \/ TradeBookingService_GetData
    \/ RiskService_GetData
    \/ InquiryService_GetData

SpecGetData == Init /\ [][NextGetData]_vars

NextCodec ==
    \/ PriceToText
    \/ TextToPrice

SpecCodec == InitCodec /\ [][NextCodec]_vars

SpecMarketData == Init /\ [][NextMarketData]_vars

NextBucketedRisk ==
    \/ RiskService_OnMessage
    \/ RiskService_GetBucketedRisk

SpecBucketedRisk == Init /\ [][NextBucketedRisk]_vars

NextPositions == TradeBookingConnector_Subscribe_Positions

SpecPositions == Init /\ [][NextPositions]_vars

(***************************************************************************)
(* C1: an inquiry delivered to OnMessage in state RECEIVED is stored as    *)
(* DONE when the call returns, after exactly one re-entry of OnMessage     *)
(* through the connector: one Publish, one Subscribe, two OnMessage calls. *)
(***************************************************************************)
ReceivedDelivered ==
    inquiryCall.op = "OnMessage" /\ inquiryCall.state = "RECEIVED"

C1_ReceivedEndsDone ==
    ReceivedDelivered =>
        /\ inquiries_[inquiryCall.inquiryId] # Absent
        /\ inquiries_[inquiryCall.inquiryId].state = "DONE"
        /\ inquiryCall.onMessage = 2
        /\ inquiryCall.publish = 1
        /\ inquiryCall.subscribe = 1

C1_Witness ==
    /\ ReceivedDelivered
    /\ inquiries_[inquiryCall.inquiryId] # Absent
    /\ inquiries_[inquiryCall.inquiryId].state = "DONE"
    /\ inquiryCall.onMessage = 2

(***************************************************************************)
(* C2: for each inbound RECEIVED inquiry the listeners get exactly one     *)
(* ProcessAdd, carrying DONE, and allinquiries.txt gains exactly one line  *)
(* (the DONE inquiry), none for the RECEIVED or QUOTED stages.             *)
(***************************************************************************)
C2_OneDoneLine ==
    ReceivedDelivered =>
        /\ inquiryCall.processAdd = <<"DONE">>
        /\ Len(allinquiries_txt) = inquiryCall.linesBefore + 1
        /\ allinquiries_txt[Len(allinquiries_txt)].state = "DONE"
        /\ allinquiries_txt[Len(allinquiries_txt)].inquiryId = inquiryCall.inquiryId

C2_Witness ==
    /\ ReceivedDelivered
    /\ inquiryCall.linesBefore >= 1
    /\ Len(allinquiries_txt) = inquiryCall.linesBefore + 1
    /\ inquiryCall.processAdd = <<"DONE">>


(***************************************************************************)
(* C3: AlgoExecute emits an AlgoExecutionOrder for a book if and only if   *)
(* the book's best offer price (the lowest of its offer stack) minus its   *)
(* best bid price (the highest of its bid stack) is at most 1/128.          *)
(***************************************************************************)
StackPrices(stack) == {stack[i].price : i \in 1..Len(stack)}

MaxOf(S) == CHOOSE x \in S : \A y \in S : y <= x

MinOf(S) == CHOOSE x \in S : \A y \in S : x <= y

BookSpread(book) ==
    MinOf(StackPrices(book.offerStack)) - MaxOf(StackPrices(book.bidStack))

TwoSided(book) == book.bidStack # <<>> /\ book.offerStack # <<>>

C3_ExecutionGating ==
    (algoExecute.called /\ TwoSided(algoExecute.book)) =>
        (algoExecute.emitted <=> BookSpread(algoExecute.book) <= 2)

C3_Witness ==
    /\ algoExecute.called
    /\ TwoSided(algoExecute.book)
    /\ BookSpread(algoExecute.book) = 2
    /\ algoExecute.emitted
    /\ \E i \in 1..Len(booksDelivered) :
          /\ TwoSided(booksDelivered[i])
          /\ BookSpread(booksDelivered[i]) = 3

(***************************************************************************)
(* C4: the sides of successive AlgoExecutionOrder emissions alternate,     *)
(* starting with BID, whatever ineligible books come in between; so the    *)
(* numbers of BID and of OFFER emissions never differ by more than 1.       *)
(***************************************************************************)
EmissionsOn(side) ==
    Cardinality({i \in 1..Len(algoOrders) : algoOrders[i].order.side = side})

C4_ExecutionAlternation ==
    /\ \A i \in 1..Len(algoOrders) :
          algoOrders[i].order.side = IF i % 2 = 1 THEN "BID" ELSE "OFFER"
    /\ EmissionsOn("BID") - EmissionsOn("OFFER") \in {0, 1}

C4_Witness ==
    /\ Len(algoOrders) >= 2
    /\ algoOrders[2].order.side = "OFFER"
    /\ \E i \in 1..Len(booksDelivered) :
          /\ TwoSided(booksDelivered[i])
          /\ BookSpread(booksDelivered[i]) > 2
          /\ \E j \in 1..(i - 1) : TwoSided(booksDelivered[j])
                                   /\ BookSpread(booksDelivered[j]) <= 2
          /\ \E j \in (i + 1)..Len(booksDelivered) :
                TwoSided(booksDelivered[j]) /\ BookSpread(booksDelivered[j]) <= 2

(***************************************************************************)
(* C5: after N records with bookDepth = D, exactly floor(N / 2D) books     *)
(* have been delivered to MarketDataService::OnMessage and each of them    *)
(* has exactly D orders in its bid stack and D in its offer stack.          *)
(***************************************************************************)
C5_BookDepth ==
    /\ Len(booksDelivered) = recordsRead \div (2 * BookDepth)
    /\ \A i \in 1..Len(booksDelivered) :
          /\ Len(booksDelivered[i].bidStack) = BookDepth
          /\ Len(booksDelivered[i].offerStack) = BookDepth

(***************************************************************************)
(* C6: for every product, the aggregate position PositionService holds     *)
(* equals the signed sum (+quantity for BUY, -quantity for SELL) of all    *)
(* the trades AddTrade received for it.                                     *)
(***************************************************************************)
C6_PositionAggregate ==
    \A p \in Products :
        Position_GetAggregatePosition(PositionsAt(positions_, p)) = netReceived[p]

C6_Witness ==
    \E p \in Products :
        /\ positions_[p] # Absent
        /\ Cardinality(DOMAIN positions_[p].positions) >= 2
        /\ netReceived[p] < 0
        /\ Position_GetAggregatePosition(positions_[p]) = netReceived[p]

(***************************************************************************)
(* C7: after every PositionService::AddTrade, once its fan-out is done,    *)
(* the PV01 RiskService stores under the trade's productId has the         *)
(* product's current aggregate position as its quantity.                    *)
(***************************************************************************)
C7_PV01Consistency ==
    \A i \in 1..Len(addTrades) :
        /\ addTrades[i].pv01 # Absent
        /\ addTrades[i].pv01.quantity = addTrades[i].aggregate

(***************************************************************************)
(* C8: any two successive lines of gui.txt were written at clock readings  *)
(* that differ by at least the throttle (300 ms).                           *)
(***************************************************************************)
C8_GuiThrottle ==
    \A i \in 1..(Len(gui_txt) - 1) :
        gui_txt[i + 1].at - gui_txt[i].at >= 300

C8_Witness ==
    /\ Len(gui_txt) >= 2
    /\ gui_txt[2].at - gui_txt[1].at = 300
    /\ priceRows > Len(gui_txt)

(***************************************************************************)
(* C9: on each inbound Price a line is written if and only if              *)
(* M_now - lastEmitMs >= throttle, and then lastEmitMs becomes M_now;      *)
(* otherwise the update is dropped: lastEmitMs keeps its value and no line *)
(* for that update is written then or later (every line of gui.txt        *)
(* carries the update that was inbound at the reading it was written at).   *)
(***************************************************************************)
GuiWrote == Len(gui_txt) = guiPublish.linesBefore + 1

C9_GuiDropsNeverDefers ==
    guiPublish.called =>
        /\ GuiWrote <=> (guiPublish.now - guiPublish.millisecBefore >= 300)
        /\ GuiWrote =>
              /\ millisec_ = guiPublish.now
              /\ gui_txt[Len(gui_txt)].price.row = guiPublish.row
              /\ gui_txt[Len(gui_txt)].at = guiPublish.now
        /\ ~GuiWrote =>
              /\ millisec_ = guiPublish.millisecBefore
              /\ Len(gui_txt) = guiPublish.linesBefore
              /\ \A i \in 1..Len(gui_txt) : gui_txt[i].price.row # guiPublish.row
        /\ \A i \in 1..Len(gui_txt), j \in 1..Len(gui_txt) :
              i < j => gui_txt[i].price.row < gui_txt[j].price.row

C9_Witness ==
    /\ guiPublish.called
    /\ ~GuiWrote
    /\ guiPublish.now - guiPublish.millisecBefore = 299
    /\ Len(gui_txt) >= 1
    /\ \E i \in 1..Len(gui_txt) : gui_txt[i].price.row = guiPublish.row - 2

(***************************************************************************)
(* C10: the visible quantities of successive AlgoStreams alternate         *)
(* 1 000 000, 2 000 000, ... starting with 1 000 000; in each AlgoStream   *)
(* the bid and the offer order both carry hiddenQuantity = 2 * visible;    *)
(* and count_ goes up by exactly one per price tick.                        *)
(***************************************************************************)
C10_StreamingAlternation ==
    /\ Len(algoStreams) = priceRows
    /\ count_as = priceRows
    /\ \A i \in 1..Len(algoStreams) :
          LET stream == algoStreams[i].price_stream
              visible == IF i % 2 = 1 THEN 1000000 ELSE 2000000
          IN  /\ stream.bidOrder.visibleQuantity = visible
              /\ stream.offerOrder.visibleQuantity = visible
              /\ stream.bidOrder.hiddenQuantity = 2 * visible
              /\ stream.offerOrder.hiddenQuantity = 2 * visible

C10_Witness ==
    /\ Len(algoStreams) >= 3
    /\ algoStreams[1].price_stream.bidOrder.visibleQuantity = 1000000
    /\ algoStreams[2].price_stream.bidOrder.visibleQuantity = 2000000
    /\ algoStreams[3].price_stream.offerOrder.hiddenQuantity = 2000000

(***************************************************************************)
(* C11: downstream services and sinks see the events of an input file in   *)
(* file order.  For prices.txt: the i-th AlgoStream and the i-th line of   *)
(* streaming.txt are those of the i-th row, and the lines of gui.txt carry *)
(* rows of the file in increasing file position, each with that row's      *)
(* product, mid and spread.                                                 *)
(***************************************************************************)
RowOfStream(stream) ==
    [product |-> stream.product,
     bid |-> stream.bidOrder.price \div 2,
     ask |-> stream.offerOrder.price \div 2]

RowOfPrice(price) ==
    [product |-> price.product,
     bid |-> (price.mid - price.bidOfferSpread \div 2) \div 2,
     ask |-> (price.mid + price.bidOfferSpread \div 2) \div 2]

OthersUnchanged ==
    \A k \in InquiryIds \ {inquiryCall.inquiryId} :
        inquiries_[k] = inquiryCall.storeBefore[k]

QuotedDelivered ==
    inquiryCall.op = "OnMessage" /\ inquiryCall.state = "QUOTED"

C13_QuotedStoredDone ==
    QuotedDelivered =>
        /\ inquiries_[inquiryCall.inquiryId] # Absent
        /\ inquiries_[inquiryCall.inquiryId].inquiryId = inquiryCall.inquiryId
        /\ inquiries_[inquiryCall.inquiryId].state = "DONE"
        /\ OthersUnchanged
        /\ inquiryCall.processAdd = <<"DONE">>
        /\ Len(allinquiries_txt) = inquiryCall.linesBefore + 1
        /\ allinquiries_txt[Len(allinquiries_txt)] = inquiries_[inquiryCall.inquiryId]
        /\ inquiryCall.onMessage = 1
        /\ inquiryCall.publish = 0
        /\ inquiryCall.subscribe = 0

C13_Witness ==
    /\ QuotedDelivered
    /\ inquiryCall.storeBefore[inquiryCall.inquiryId] # Absent
    /\ inquiryCall.storeBefore[inquiryCall.inquiryId].state = "REJECTED"
    /\ inquiries_[inquiryCall.inquiryId].state = "DONE"
    /\ inquiryCall.publish = 0

(***************************************************************************)
(* C14: an inquiry delivered to OnMessage in state DONE, REJECTED or       *)
(* CUSTOMER_REJECTED changes nothing: the store is as before, the          *)
(* connector is not called and no listener receives anything.               *)
(***************************************************************************)
OtherStateDelivered ==
    /\ inquiryCall.op = "OnMessage"
    /\ inquiryCall.state \in {"DONE", "REJECTED", "CUSTOMER_REJECTED"}

C14_OtherStatesNoOp ==
    OtherStateDelivered =>
        /\ inquiries_ = inquiryCall.storeBefore
        /\ inquiryCall.publish = 0
        /\ inquiryCall.subscribe = 0
        /\ inquiryCall.processAdd = <<>>
        /\ Len(allinquiries_txt) = inquiryCall.linesBefore

C14_Witness ==
    /\ OtherStateDelivered
    /\ inquiryCall.state = "CUSTOMER_REJECTED"
    /\ inquiries_[inquiryCall.inquiryId] # Absent
    /\ inquiries_[inquiryCall.inquiryId].state = "DONE"
    /\ inquiries_ = inquiryCall.storeBefore
    /\ Len(allinquiries_txt) = inquiryCall.linesBefore
    /\ Len(allinquiries_txt) >= 1

(***************************************************************************)
(* C15: SendQuote(inquiryId, price) on a stored inquiry sets its price to  *)
(* the given price and hands it to every listener exactly once; its state  *)
(* and its other fields, and every other stored inquiry, stay as they      *)
(* were.                                                                    *)
(***************************************************************************)
QuoteSent ==
    /\ inquiryCall.op = "SendQuote"
    /\ inquiryCall.storeBefore[inquiryCall.inquiryId] # Absent

C15_SendQuoteSetsPrice ==
    QuoteSent =>
        /\ inquiries_[inquiryCall.inquiryId] =
              [inquiryCall.storeBefore[inquiryCall.inquiryId]
                  EXCEPT !.price = inquiryCall.price]
        /\ OthersUnchanged
        /\ inquiryCall.processAdd = <<inquiryCall.state>>
        /\ Len(allinquiries_txt) = inquiryCall.linesBefore + 1
        /\ allinquiries_txt[Len(allinquiries_txt)] = inquiries_[inquiryCall.inquiryId]

C15_Witness ==
    /\ QuoteSent
    /\ inquiryCall.storeBefore[inquiryCall.inquiryId].price # inquiryCall.price
    /\ inquiries_[inquiryCall.inquiryId].price = inquiryCall.price
    /\ inquiries_[inquiryCall.inquiryId].state = "DONE"
    /\ \E k \in InquiryIds \ {inquiryCall.inquiryId} : inquiries_[k] # Absent

(***************************************************************************)
(* C16: RejectInquiry(inquiryId) sets the stored inquiry's state to        *)
(* REJECTED and fans nothing out: no listener gets a ProcessAdd and        *)
(* allinquiries.txt gains no line.                                          *)
(***************************************************************************)
Rejected == inquiryCall.op = "RejectInquiry"

C16_RejectNoFanOut ==
    Rejected =>
        /\ inquiries_[inquiryCall.inquiryId] # Absent
        /\ inquiries_[inquiryCall.inquiryId].state = "REJECTED"
        /\ inquiryCall.storeBefore[inquiryCall.inquiryId] # Absent =>
              inquiries_[inquiryCall.inquiryId] =
                  [inquiryCall.storeBefore[inquiryCall.inquiryId]
                      EXCEPT !.state = "REJECTED"]
        /\ OthersUnchanged
        /\ inquiryCall.processAdd = <<>>
        /\ Len(allinquiries_txt) = inquiryCall.linesBefore

C16_Witness ==
    /\ Rejected
    /\ inquiryCall.storeBefore[inquiryCall.inquiryId] # Absent
    /\ inquiryCall.storeBefore[inquiryCall.inquiryId].state = "DONE"
    /\ inquiries_[inquiryCall.inquiryId].state = "REJECTED"
    /\ Len(allinquiries_txt) = inquiryCall.linesBefore
    /\ Len(allinquiries_txt) >= 1

(***************************************************************************)
(* C17: AggregateDepth(productId) replaces the stored book so that each    *)
(* stack holds exactly one order per distinct price of the original stack, *)
(* its quantity the sum of the original quantities at that price; so the   *)
(* prices of an aggregated stack are distinct and the total quantity of    *)
(* each stack is the same before and after.                                 *)
(***************************************************************************)
RECURSIVE StackTotal(_)
StackTotal(stack) ==
    IF stack = <<>> THEN 0 ELSE Head(stack).quantity + StackTotal(Tail(stack))

OrdersAt(stack, price) == SelectSeq(stack, LAMBDA o : o.price = price)

AggregateOf(original, aggregated) ==
    /\ \A i \in 1..Len(aggregated), j \in 1..Len(aggregated) :
          i # j => aggregated[i].price # aggregated[j].price
    /\ StackPrices(aggregated) = StackPrices(original)
    /\ \A i \in 1..Len(aggregated) :
          aggregated[i].quantity =
              StackTotal(OrdersAt(original, aggregated[i].price))
    /\ StackTotal(aggregated) = StackTotal(original)

Aggregated == bookQuery.op = "AggregateDepth" /\ ~bookQuery.threw

C17_AggregateDepth ==
    Aggregated =>
        /\ order_books_[bookQuery.productId] = bookQuery.after
        /\ AggregateOf(bookQuery.before.bidStack, bookQuery.after.bidStack)
        /\ AggregateOf(bookQuery.before.offerStack, bookQuery.after.offerStack)

C17_Witness ==
    /\ Aggregated
    /\ Len(bookQuery.before.bidStack) = 2
    /\ Len(bookQuery.after.bidStack) = 1
    /\ bookQuery.after.bidStack[1].quantity = 6000000
    /\ order_books_[bookQuery.productId] = bookQuery.after

(***************************************************************************)
(* C18: AggregateDepth is idempotent: a second AggregateDepth(k), with no  *)
(* new book for k in between, leaves a stored book with the same           *)
(* price-to-quantity content in each stack as the first call left.          *)
(***************************************************************************)
StackContent(stack) ==
    {<<stack[i].price, stack[i].quantity>> : i \in 1..Len(stack)}

BookContent(book) ==
    [bid |-> StackContent(book.bidStack), offer |-> StackContent(book.offerStack)]

AggregatedAgain == Aggregated /\ bookQuery.repeat

C18_AggregateIdempotent ==
    AggregatedAgain =>
        /\ BookContent(bookQuery.after) = BookContent(bookQuery.before)
        /\ Len(bookQuery.after.bidStack) = Len(bookQuery.before.bidStack)
        /\ Len(bookQuery.after.offerStack) = Len(bookQuery.before.offerStack)
        /\ order_books_[bookQuery.productId] = bookQuery.after

C18_Witness ==
    /\ AggregatedAgain
    /\ Len(bookQuery.before.bidStack) = 2
    /\ bookQuery.after # bookQuery.before
    /\ BookContent(bookQuery.after) = BookContent(bookQuery.before)

(***************************************************************************)
(* C19: for a stored book with non-empty stacks GetBestBidOffer returns as *)
(* bid the order of the bid stack with the highest price and as offer the  *)
(* order of the offer stack with the lowest price; among orders sharing    *)
(* that price it returns the first in the stack.                            *)
(***************************************************************************)
FirstAt(stack, price) ==
    stack[CHOOSE i \in 1..Len(stack) :
              /\ stack[i].price = price
              /\ \A j \in 1..(i - 1) : stack[j].price # price]

BestAsked ==
    /\ bookQuery.op = "GetBestBidOffer"
    /\ ~bookQuery.threw
    /\ TwoSided(bookQuery.before)

C19_BestBidOffer ==
    BestAsked =>
        /\ bookQuery.bidOffer.bidOrder =
              FirstAt(bookQuery.before.bidStack,
                      MaxOf(StackPrices(bookQuery.before.bidStack)))
        /\ bookQuery.bidOffer.offerOrder =
              FirstAt(bookQuery.before.offerStack,
                      MinOf(StackPrices(bookQuery.before.offerStack)))
        /\ order_books_[bookQuery.productId] = bookQuery.before

C19_Witness ==
    /\ BestAsked
    /\ Len(bookQuery.before.bidStack) = 2
    /\ bookQuery.before.bidStack[1].price = 25600
    /\ bookQuery.before.bidStack[2].price = 25600
    /\ bookQuery.before.bidStack[1].quantity # bookQuery.before.bidStack[2].quantity
    /\ bookQuery.bidOffer.bidOrder = bookQuery.before.bidStack[1]
    /\ Len(bookQuery.before.offerStack) = 2
    /\ bookQuery.before.offerStack[1].price = 25603
    /\ bookQuery.bidOffer.offerOrder = bookQuery.before.offerStack[2]

(***************************************************************************)
(* C20: every AlgoExecutionOrder the algo service emits is delivered to    *)
(* the listeners of ExecutionService twice, once by OnMessage and once by  *)
(* ExecuteOrder: executions.txt gets two equal lines for it and trade      *)
(* booking receives two trades for it.                                      *)
(***************************************************************************)
C20_DoubleExecution ==
    /\ Len(executions_txt) = 2 * Len(algoOrders)
    /\ \A i \in 1..Len(algoOrders) :
          /\ executions_txt[2 * i - 1] = algoOrders[i].order
          /\ executions_txt[2 * i] = algoOrders[i].order
    /\ count_tb = 2 * Len(algoOrders)

C20_Witness ==
    /\ Len(algoOrders) = 2
    /\ Len(executions_txt) = 4
    /\ executions_txt[1] = executions_txt[2]
    /\ executions_txt[3] = executions_txt[4]
    /\ executions_txt[2] # executions_txt[3]
    /\ count_tb = 4

(***************************************************************************)
(* C21: each AlgoStream received by StreamingService reaches the           *)
(* StreamingService listeners once, by PublishPrice; OnMessage only        *)
(* stores.  streaming.txt gets one line per price tick, the price stream   *)
(* of that tick, and the store holds the latest stream of each product.     *)
(***************************************************************************)
C21_SingleStreamingFanOut ==
    /\ Len(streaming_txt) = Len(algoStreams)
    /\ \A i \in 1..Len(algoStreams) :
          /\ streaming_txt[i] = algoStreams[i].price_stream
          /\ price_streams_[algoStreams[i].price_stream.product] # Absent
          /\ (\A j \in (i + 1)..Len(algoStreams) :
                 algoStreams[j].price_stream.product
                     # algoStreams[i].price_stream.product)
             => price_streams_[algoStreams[i].price_stream.product]
                    = algoStreams[i].price_stream

C21_Witness ==
    /\ Len(algoStreams) = 3
    /\ Len(streaming_txt) = 3
    /\ streaming_txt[1] # streaming_txt[2]
    /\ algoStreams[1].price_stream.product = algoStreams[3].price_stream.product
    /\ price_streams_[algoStreams[3].price_stream.product] = streaming_txt[3]

\* C21 as the specification states it: two lines of streaming.txt per tick
C21_DoubleStreamingFanOut ==
    /\ Len(streaming_txt) = 2 * Len(algoStreams)
    /\ \A i \in 1..Len(algoStreams) :
          /\ streaming_txt[2 * i - 1] = algoStreams[i].price_stream
          /\ streaming_txt[2 * i] = algoStreams[i].price_stream

(***************************************************************************)
(* C22: tradeId is unique per process: no two distinct trades delivered to *)
(* TradeBookingService::OnMessage carry the same tradeId, the trades       *)
(* synthesised from ExecutionOrders included, so the trade store keeps one *)
(* entry per trade received.                                                *)
(***************************************************************************)
C22_TradeIdUnique ==
    /\ \A i \in 1..Len(tradesReceived), j \in 1..Len(tradesReceived) :
          tradesReceived[i] # tradesReceived[j]
              => tradesReceived[i].tradeId # tradesReceived[j].tradeId
    /\ Cardinality({id \in DOMAIN trades_ : trades_[id] # Absent})
          = Cardinality({tradesReceived[i] : i \in 1..Len(tradesReceived)})

(***************************************************************************)
(* C26: for every price p of the 1/256 grid in [99, 101], the text         *)
(* ConvertPrice gives for p parses back to exactly p; the text is the      *)
(* whole part, '-', the 32nds as two digits and the 256ths as one          *)
(* character, '+' standing for 4.                                           *)
(***************************************************************************)
C26_PriceRoundTrip ==
    codec.step = "parsed" =>
        /\ codec.parsed = codec.price
        /\ LET n == Len(codec.text)
           IN  /\ n = Len(to_string(codec.price \div 256)) + 4
               /\ codec.text[n - 3] = "-"
               /\ (codec.text[n] = "+") <=> (codec.price % 8 = 4)
               /\ (codec.text[n - 2] = "0") <=> ((codec.price % 256) \div 8 < 10)

C26_Witness ==
    /\ codec.step = "parsed"
    /\ codec.price = 99 * 256 + 5 * 8 + 4
    /\ codec.text = <<"9", "9", "-", "0", "5", "+">>
    /\ codec.parsed = codec.price

(***************************************************************************)
(* C23: a record whose productId is absent from the bond catalog is        *)
(* skipped: it changes no service store, reaches no listener and produces  *)
(* no output line.  For trades.txt: no trade of an unknown product is      *)
(* delivered to TradeBookingService::OnMessage or stored, and              *)
(* PositionService holds no position for it.                                *)
(***************************************************************************)
C23_UnknownProductSkipped ==
    /\ \A i \in 1..Len(tradesReceived) : tradesReceived[i].product \in Products
    /\ \A id \in DOMAIN trades_ :
          trades_[id] # Absent => trades_[id].product \in Products
    /\ positions_[UnknownProductId] = Absent

(***************************************************************************)
(* C24: a row that does not parse (wrong field count, invalid side, invalid *)
(* price) is skipped: it changes no state and emits nothing, and the next   *)
(* row is processed.  For trades.txt: the process never ends on a row, and  *)
(* the trades delivered to TradeBookingService::OnMessage are as many as    *)
(* the well-formed rows read, each with the side its row names.             *)
(***************************************************************************)
C24_MalformedSkipped ==
    LET WellFormed(line) ==
            /\ Len(line) = 6
            /\ line[6] \in {"BUY", "SELL"}
            /\ Len(line[3]) >= 4
            /\ \A i \in 1..Len(line[3]) :
                  \/ IsDigit(line[3][i])
                  \/ i = Len(line[3]) - 3 /\ line[3][i] = "-"
                  \/ i = Len(line[3]) /\ line[3][i] = "+"
        rows == {i \in 1..Len(tradeLines) : WellFormed(tradeLines[i])}
    IN  /\ ~faulted
        /\ Len(tradesReceived) = Cardinality(rows)
        /\ \A i \in 1..Len(tradesReceived) :
              \E r \in rows : tradesReceived[i].side = tradeLines[r][6]

(***************************************************************************)
(* C25: GetData(k) for a key the service has never stored returns a        *)
(* value-initialised entry, which it inserts, in the services that use     *)
(* operator[] (InquiryService, RiskService); in MarketDataService,         *)
(* ExecutionService and TradeBookingService, which use at(), it throws     *)
(* std::out_of_range and the store stays without the key.                   *)
(***************************************************************************)
C25_GetDataMissingKey ==
    (getData.service # "none" /\ ~getData.seen) =>
        CASE getData.service = "MarketDataService" ->
                 getData.threw /\ getData.stored = Absent
          [] getData.service = "ExecutionService" ->
                 getData.threw /\ getData.stored = Absent
          [] getData.service = "TradeBookingService" ->
                 getData.threw /\ getData.stored = Absent
          [] getData.service = "RiskService" ->
                 /\ ~getData.threw
                 /\ getData.value = PV01(DefaultProductId, 0, 0)
                 /\ getData.stored = getData.value
          [] getData.service = "InquiryService" ->
                 /\ ~getData.threw
                 /\ getData.value.quantity = 0
                 /\ getData.stored = getData.value

C25_Witness ==
    /\ getData.service = "TradeBookingService"
    /\ ~getData.seen
    /\ getData.threw
    /\ getData.key = "T2"
    /\ getData.stored = Absent
    /\ trades_["T1"] # Absent
    /\ inquiries_["INQ01"] # Absent

\* C25 as the specification states it: no service raises an error
C25_GetDataNeverThrows ==
    (getData.service # "none" /\ ~getData.seen) => ~getData.threw

(***************************************************************************)
(* C27: AlgoExecute with a spread above 1/128 does nothing: no listener is *)
(* called and the alternation counter stays; when it emits, the counter    *)
(* moves by exactly one; in neither case is the AlgoExecutionService store *)
(* written.  So the counter always equals the number of emissions, the     *)
(* emissions are as many as the books within the spread, and the store     *)
(* stays empty.                                                             *)
(***************************************************************************)
C27_AlgoExecuteFrame ==
    /\ execution_count_ = Len(algoOrders)
    /\ (\A i \in 1..Len(booksDelivered) : TwoSided(booksDelivered[i]))
          => Len(algoOrders)
                = Cardinality({i \in 1..Len(booksDelivered) :
                                  BookSpread(booksDelivered[i]) <= spread_})
    /\ (algoExecute.called /\ TwoSided(algoExecute.book)
           /\ BookSpread(algoExecute.book) > spread_) => ~algoExecute.emitted
    /\ \A p \in DOMAIN algo_execution_orders_ : algo_execution_orders_[p] = Absent

C27_Witness ==
    /\ Len(booksDelivered) = 3
    /\ \A i \in 1..3 : TwoSided(booksDelivered[i])
    /\ BookSpread(booksDelivered[1]) <= spread_
    /\ BookSpread(booksDelivered[2]) <= spread_
    /\ BookSpread(booksDelivered[3]) > spread_
    /\ algoExecute.called
    /\ ~algoExecute.emitted
    /\ execution_count_ = 2
    /\ Len(executions_txt) = 4

(***************************************************************************)
(* C28: every emitted AlgoExecutionOrder has orderType MARKET, empty       *)
(* orderId and parentOrderId, hiddenQuantity 0, isChildOrder false and     *)
(* market BROKERTEC; its price and visibleQuantity are those of the best   *)
(* bid order when its side is BID and of the best offer order when OFFER.   *)
(***************************************************************************)
C28_EmittedOrderFields ==
    /\ \A i \in 1..Len(algoOrders) :
          /\ algoOrders[i].order.orderType = "MARKET"
          /\ algoOrders[i].order.orderId = ""
          /\ algoOrders[i].order.parentOrderId = ""
          /\ algoOrders[i].order.hiddenQuantity = 0
          /\ algoOrders[i].order.isChildOrder = FALSE
          /\ algoOrders[i].market = "BROKERTEC"
    /\ (algoExecute.emitted /\ TwoSided(algoExecute.book)) =>
          LET emitted == algoOrders[Len(algoOrders)].order
              stack == IF emitted.side = "BID" THEN algoExecute.book.bidStack
                       ELSE algoExecute.book.offerStack
              best == FirstAt(stack, IF emitted.side = "BID"
                                     THEN MaxOf(StackPrices(stack))
                                     ELSE MinOf(StackPrices(stack)))
          IN  /\ emitted.product = algoExecute.book.product
              /\ emitted.price = best.price
              /\ emitted.visibleQuantity = best.quantity

C28_Witness ==
    /\ Len(algoOrders) = 2
    /\ algoExecute.emitted
    /\ TwoSided(algoExecute.book)
    /\ algoOrders[1].order.side = "BID"
    /\ algoOrders[2].order.side = "OFFER"
    /\ algoOrders[2].order.price = algoExecute.book.offerStack[1].price
    /\ algoOrders[2].order.visibleQuantity = algoExecute.book.offerStack[1].quantity
    /\ algoOrders[2].order.price # algoExecute.book.bidStack[1].price

(***************************************************************************)
(* C29: the books given to the successive ExecutionOrders the TradeBooking *)
(* listener receives follow TRSY2, TRSY3, TRSY1, TRSY2, ...: the n-th      *)
(* order received, counting from 1, gets TRSY1 when n mod 3 = 0, TRSY2     *)
(* when n mod 3 = 1 and TRSY3 when n mod 3 = 2; the counter moves exactly  *)
(* once per order received.                                                 *)
(***************************************************************************)
C29_RoundRobinBooks ==
    /\ count_tb = Len(executions_txt)
    /\ Len(tradesReceived) = count_tb
    /\ \A n \in 1..Len(tradesReceived) :
          tradesReceived[n].book = CASE n % 3 = 0 -> "TRSY1"
                                     [] n % 3 = 1 -> "TRSY2"
                                     [] n % 3 = 2 -> "TRSY3"

C29_Witness ==
    /\ Len(tradesReceived) = 6
    /\ count_tb = 6
    /\ tradesReceived[1].book = "TRSY2"
    /\ tradesReceived[2].book = "TRSY3"
    /\ tradesReceived[3].book = "TRSY1"
    /\ tradesReceived[4].book = "TRSY2"

(***************************************************************************)
(* C30: the trade synthesised from an ExecutionOrder has side SELL when    *)
(* the order's side is BID and BUY when it is OFFER, quantity              *)
(* visibleQuantity + hiddenQuantity, tradeId the order's orderId, and the  *)
(* order's product and price.                                               *)
(***************************************************************************)
C30_SynthesisedTrade ==
    /\ Len(tradesReceived) = Len(executions_txt)
    /\ \A n \in 1..Len(tradesReceived) :
          LET trade == tradesReceived[n]
              order == executions_txt[n]
          IN  /\ trade.side = IF order.side = "BID" THEN "SELL" ELSE "BUY"
              /\ trade.quantity = order.visibleQuantity + order.hiddenQuantity
              /\ trade.tradeId = order.orderId
              /\ trade.product = order.product
              /\ trade.price = order.price

C30_Witness ==
    /\ Len(tradesReceived) = 4
    /\ executions_txt[1].side = "BID"
    /\ tradesReceived[1].side = "SELL"
    /\ executions_txt[3].side = "OFFER"
    /\ tradesReceived[3].side = "BUY"
    /\ tradesReceived[3].quantity = executions_txt[3].visibleQuantity
    /\ tradesReceived[3].price # tradesReceived[1].price

(***************************************************************************)
(* C31: AddPosition(book, quantity, side) adds quantity to positions[book]  *)
(* for BUY and subtracts it for SELL, creating the book at 0 when absent,   *)
(* and leaves every other book of the product and the position of every     *)
(* other product as they were.  BUY 1 000 000 TRSY1, SELL 500 000 TRSY2,    *)
(* BUY 250 000 TRSY1 gives TRSY1 = 1 250 000, TRSY2 = -500 000, aggregate    *)
(* 750 000.                                                                  *)
(***************************************************************************)
\* the trades before the i-th that are of the same product as the i-th
EarlierOf(i) ==
    {j \in 1..(i - 1) : tradesReceived[j].product = tradesReceived[i].product}

\* the books of the i-th trade's product as they were before the i-th trade
BooksBefore(i) ==
    IF EarlierOf(i) = {} THEN NoPositions
    ELSE positions_txt[CHOOSE j \in EarlierOf(i) : \A k \in EarlierOf(i) : k <= j].positions

C31_AddPositionFrame ==
    /\ Len(positions_txt) = Len(tradesReceived)
    /\ \A i \in 1..Len(tradesReceived) :
          LET t == tradesReceived[i]
              before == BooksBefore(i)
              after == positions_txt[i].positions
              old == IF t.book \in DOMAIN before THEN before[t.book] ELSE 0
          IN  /\ DOMAIN after = DOMAIN before \cup {t.book}
              /\ t.side = "BUY" => after[t.book] = old + t.quantity
              /\ t.side = "SELL" => after[t.book] = old - t.quantity
              /\ \A b \in DOMAIN before \ {t.book} : after[b] = before[b]
    /\ \A p \in Products :
          LET of_p == {i \in 1..Len(tradesReceived) : tradesReceived[i].product = p}
          IN  IF of_p = {} THEN positions_[p] = Absent
              ELSE positions_[p] =
                      positions_txt[CHOOSE j \in of_p : \A k \in of_p : k <= j]

C31_Witness ==
    \E p \in Products :
        /\ Len(tradesReceived) = 3
        /\ \A i \in 1..3 : tradesReceived[i].product = p
        /\ tradesReceived[1].book = "TRSY1" /\ tradesReceived[1].side = "BUY"
        /\ tradesReceived[1].quantity = 1000000
        /\ tradesReceived[2].book = "TRSY2" /\ tradesReceived[2].side = "SELL"
        /\ tradesReceived[2].quantity = 500000
        /\ tradesReceived[3].book = "TRSY1" /\ tradesReceived[3].side = "BUY"
        /\ tradesReceived[3].quantity = 250000
        /\ positions_[p].positions["TRSY1"] = 1250000
        /\ positions_[p].positions["TRSY2"] = -500000
        /\ Position_GetAggregatePosition(positions_[p]) = 750000
        /\ \A o \in Products \ {p} : positions_[o] = Absent

(***************************************************************************)
(* C32: GetBucketedRisk(sector) returns a PV01 whose pv01 is the sum, over  *)
(* the sector's products, of the stored pv01 times the stored quantity of   *)
(* the product, a product without a stored PV01 counting 0, and whose       *)
(* quantity is 1 whatever the positions are.                                 *)
(***************************************************************************)
C32_BucketedRisk ==
    bucketedRisk.called =>
        LET before == bucketedRisk.storeBefore
            term == [p \in bucketedRisk.sector |->
                        IF before[p] = Absent THEN 0
                        ELSE before[p].pv01 * before[p].quantity]
        IN  /\ bucketedRisk.sum = SumOver(term, bucketedRisk.sector)
            /\ bucketedRisk.pv01 = SumOver(term, bucketedRisk.sector)
            /\ bucketedRisk.quantity = 1

(***************************************************************************)
(* C33: for every inbound Price, AlgoPublishPrice emits a bid order tagged  *)
(* BID at mid - spread / 2 and an offer order tagged OFFER at               *)
(* mid + spread / 2: the offer price minus the bid price is the spread of   *)
(* the Price and the two are centred on its mid.  (Prices count 1/512ths;   *)
(* the Price of the last tick of a product is the one GUIService stores.)    *)
(***************************************************************************)
C33_StreamCentredOnMid ==
    \A p \in Products :
        algo_streams_[p] # Absent =>
            /\ guis_[p] # Absent
            /\ LET price == guis_[p]
                   bid == algo_streams_[p].price_stream.bidOrder
                   offer == algo_streams_[p].price_stream.offerOrder
               IN  /\ bid.side = "BID"
                   /\ offer.side = "OFFER"
                   /\ 2 * bid.price = 2 * price.mid - price.bidOfferSpread
                   /\ 2 * offer.price = 2 * price.mid + price.bidOfferSpread
                   /\ offer.price - bid.price = price.bidOfferSpread
                   /\ bid.price + offer.price = 2 * price.mid

C33_Witness ==
    \E p \in Products :
        /\ algo_streams_[p] # Absent
        /\ guis_[p] # Absent
        /\ guis_[p].mid = 51199
        /\ guis_[p].bidOfferSpread = 6
        /\ algo_streams_[p].price_stream.bidOrder.price = 51196
        /\ algo_streams_[p].price_stream.offerOrder.price = 51202

(***************************************************************************)
(* C34: a first tick (count 0) with mid = 100 and spread = 1/64 emits a bid *)
(* order at 100 - 1/128, which is 99-316, and an offer order at             *)
(* 100 + 1/128, which is 100-002, each with visible 1 000 000 and hidden    *)
(* 2 000 000; the tick after it (count 1) has visible 2 000 000 and hidden  *)
(* 4 000 000.                                                                *)
(***************************************************************************)
\* the first row of prices.txt gives mid = 100 and spread = 1/64
FirstTickAtPar ==
    /\ Len(prices_txt) >= 1
    /\ prices_txt[1].bid + prices_txt[1].ask = 2 * 25600
    /\ prices_txt[1].ask - prices_txt[1].bid = 4

QuantitiesOf(i, visible, hidden) ==
    LET stream == algoStreams[i].price_stream
    IN  /\ stream.bidOrder.visibleQuantity = visible
        /\ stream.offerOrder.visibleQuantity = visible
        /\ stream.bidOrder.hiddenQuantity = hidden
        /\ stream.offerOrder.hiddenQuantity = hidden

C34_FirstTickAtPar ==
    FirstTickAtPar =>
        /\ Len(algoStreams) = Len(prices_txt)
        /\ LET stream == algoStreams[1].price_stream
           IN  /\ stream.bidOrder.side = "BID"
               /\ stream.offerOrder.side = "OFFER"
               /\ stream.bidOrder.price = 2 * 25600 - 4
               /\ stream.offerOrder.price = 2 * 25600 + 4
               /\ ConvertPrice_float(stream.bidOrder.price \div 2)
                      = <<"9", "9", "-", "3", "1", "6">>
               /\ ConvertPrice_float(stream.offerOrder.price \div 2)
                      = <<"1", "0", "0", "-", "0", "0", "2">>
        /\ QuantitiesOf(1, 1000000, 2000000)
        /\ Len(algoStreams) >= 2 => QuantitiesOf(2, 2000000, 4000000)

C34_Witness ==
    /\ FirstTickAtPar
    /\ Len(algoStreams) >= 2
    /\ algoStreams[1].price_stream.bidOrder.price = 51196
    /\ algoStreams[1].price_stream.offerOrder.price = 51204
    /\ QuantitiesOf(1, 1000000, 2000000)
    /\ QuantitiesOf(2, 2000000, 4000000)

\* the claim as the specification words it: bid at 99-31+ (100 - 1/64),
\* offer at 100-00+ (100 + 1/64)
C34_FirstTickAtFullSpread ==
    FirstTickAtPar =>
        LET stream == algoStreams[1].price_stream
        IN  /\ ConvertPrice_float(stream.bidOrder.price \div 2)
                   = <<"9", "9", "-", "3", "1", "+">>
            /\ ConvertPrice_float(stream.offerOrder.price \div 2)
                   = <<"1", "0", "0", "-", "0", "0", "+">>
            /\ QuantitiesOf(1, 1000000, 2000000)
            /\ Len(algoStreams) >= 2 => QuantitiesOf(2, 2000000, 4000000)

(***************************************************************************)
(* C35: with the wiring of main each AlgoExecutionOrder emitted causes two  *)
(* calls of the TradeBooking listener, so two synthesised trades booked to  *)
(* two consecutive books of the rotation, and four PositionService::AddTrade *)
(* calls: the product's aggregate position moves by 4 times the order's     *)
(* quantity, down for a BID order and up for an OFFER order, and             *)
(* positions.txt and risk.txt gain four lines each.                          *)
(***************************************************************************)
NextBook(book) ==
    CASE book = "TRSY1" -> "TRSY2"
      [] book = "TRSY2" -> "TRSY3"
      [] book = "TRSY3" -> "TRSY1"

\* 4 times the signed quantities of the orders emitted for product p
FourfoldOf(p) ==
    LET of_p == {i \in 1..Len(algoOrders) : algoOrders[i].order.product = p}
        signed == [i \in of_p |->
                     LET order == algoOrders[i].order
                         quantity == order.visibleQuantity + order.hiddenQuantity
                     IN  IF order.side = "BID" THEN 0 - 4 * quantity
                                               ELSE 4 * quantity]
    IN  SumOver(signed, of_p)

C35_FourAddTrades ==
    /\ count_tb = 2 * Len(algoOrders)
    /\ Len(tradesReceived) = 2 * Len(algoOrders)
    /\ Len(positions_txt) = 4 * Len(algoOrders)
    /\ Len(risk_txt) = 4 * Len(algoOrders)
    /\ Len(addTrades) \in {0, 4}
    /\ \A i \in 1..Len(algoOrders) :
          LET order == algoOrders[i].order
              first == tradesReceived[2 * i - 1]
              second == tradesReceived[2 * i]
          IN  /\ first.product = order.product /\ second.product = order.product
              /\ first.quantity = order.visibleQuantity + order.hiddenQuantity
              /\ second.quantity = first.quantity
              /\ first.side = second.side
              /\ second.book = NextBook(first.book)
    /\ \A p \in Products :
          Position_GetAggregatePosition(PositionsAt(positions_, p)) = FourfoldOf(p)

C35_Witness ==
    \E p \in Products :
        /\ Len(algoOrders) = 2
        /\ algoOrders[1].order.product = p /\ algoOrders[1].order.side = "BID"
        /\ algoOrders[2].order.product = p /\ algoOrders[2].order.side = "OFFER"
        /\ Len(positions_txt) = 8
        /\ Len(risk_txt) = 8
        /\ Len(addTrades) = 4
        /\ Position_GetAggregatePosition(positions_[p])
              = 4 * algoOrders[2].order.visibleQuantity
                  - 4 * algoOrders[1].order.visibleQuantity
        /\ Position_GetAggregatePosition(positions_[p]) # 0

(***************************************************************************)
(* C36: each row of trades.txt delivered through                            *)
(* TradeBookingService::OnMessage causes exactly one                        *)
(* PositionService::AddTrade, exactly one RiskService::AddPosition and      *)
(* exactly one line in positions.txt and one in risk.txt: the trades of the *)
(* file are not delivered twice.                                             *)
(***************************************************************************)
C36_FileTradeOnce ==
    /\ Len(tradesReceived) = tradeRows
    /\ count_tb = 0
    /\ Len(addTrades) = (IF tradeRows = 0 THEN 0 ELSE 1)
    /\ Len(positions_txt) = Len(tradesReceived)
    /\ Len(risk_txt) = Len(tradesReceived)
    /\ \A i \in 1..Len(tradesReceived) :
          /\ tradesReceived[i].book \in DOMAIN positions_txt[i].positions
          /\ risk_txt[i].quantity = Position_GetAggregatePosition(positions_txt[i])
    /\ \A p \in Products :
          LET of_p == {i \in 1..Len(tradesReceived) : tradesReceived[i].product = p}
              signed == [i \in of_p |->
                           IF tradesReceived[i].side = "BUY"
                           THEN tradesReceived[i].quantity
                           ELSE 0 - tradesReceived[i].quantity]
          IN  Position_GetAggregatePosition(PositionsAt(positions_, p))
                  = SumOver(signed, of_p)

C36_Witness ==
    /\ tradeRows = 2
    /\ Len(tradesReceived) = 2
    /\ tradesReceived[1].product = tradesReceived[2].product
    /\ tradesReceived[1].side = "BUY" /\ tradesReceived[2].side = "BUY"
    /\ Len(addTrades) = 1
    /\ Len(positions_txt) = 2
    /\ Len(risk_txt) = 2
    /\ risk_txt[2].quantity = tradesReceived[1].quantity + tradesReceived[2].quantity

(***************************************************************************)
(* C37: the inquiry store never holds an inquiry in state QUOTED, neither   *)
(* between calls nor while a call runs.  For an inbound RECEIVED inquiry    *)
(* the store is written twice, RECEIVED and then DONE; QUOTED is only the   *)
(* state of the message the connector hands back to OnMessage.               *)
(***************************************************************************)
C37_NeverStoredQuoted ==
    /\ \A id \in InquiryIds :
          inquiries_[id] # Absent => inquiries_[id].state # "QUOTED"
    /\ \A k \in 1..Len(inquiryCall.stored) : inquiryCall.stored[k] # "QUOTED"
    /\ (inquiryCall.op = "OnMessage" /\ inquiryCall.state = "RECEIVED") =>
          /\ inquiryCall.stored = <<"RECEIVED", "DONE">>
          /\ inquiryCall.delivered = <<"RECEIVED", "QUOTED">>
          /\ inquiries_[inquiryCall.inquiryId].state = "DONE"

C37_Witness ==
    /\ inquiryCall.op = "OnMessage"
    /\ inquiryCall.state = "RECEIVED"
    /\ inquiryCall.delivered = <<"RECEIVED", "QUOTED">>
    /\ inquiryCall.stored = <<"RECEIVED", "DONE">>
    /\ inquiryCall.storeBefore[inquiryCall.inquiryId] # Absent
    /\ inquiryCall.storeBefore[inquiryCall.inquiryId].state = "REJECTED"
    /\ inquiries_[inquiryCall.inquiryId].state = "DONE"

(***************************************************************************)
(* C38: once an inquiry is stored as DONE, its stored state changes only by *)
(* RejectInquiry, which makes it REJECTED, and by a further inbound         *)
(* RECEIVED or QUOTED message with the same inquiryId, which overwrites it  *)
(* and ends at DONE again with one more fan-out.  SendQuote and inbound     *)
(* messages in state DONE, REJECTED or CUSTOMER_REJECTED leave the stored   *)
(* state DONE, and so does every call made for another inquiryId.            *)
(***************************************************************************)
StoredDone(store, id) == store[id] # Absent /\ store[id].state = "DONE"

C38_DoneChangesOnlyBy ==
    \A id \in InquiryIds :
        StoredDone(inquiryCall.storeBefore, id) =>
            IF id # inquiryCall.inquiryId
            THEN inquiries_[id] = inquiryCall.storeBefore[id]
            ELSE CASE inquiryCall.op = "RejectInquiry" ->
                        /\ inquiries_[id].state = "REJECTED"
                        /\ inquiryCall.stored = <<"REJECTED">>
                        /\ inquiryCall.processAdd = <<>>
                   [] inquiryCall.op = "SendQuote" ->
                        /\ inquiries_[id].state = "DONE"
                        /\ inquiryCall.stored = <<"DONE">>
                   [] inquiryCall.op = "OnMessage"
                        /\ inquiryCall.state = "RECEIVED" ->
                        /\ inquiries_[id].state = "DONE"
                        /\ inquiryCall.stored = <<"RECEIVED", "DONE">>
                        /\ inquiryCall.processAdd = <<"DONE">>
                        /\ Len(allinquiries_txt) = inquiryCall.linesBefore + 1
                        /\ allinquiries_txt[Len(allinquiries_txt)] = inquiries_[id]
                   [] inquiryCall.op = "OnMessage"
                        /\ inquiryCall.state = "QUOTED" ->
                        /\ inquiries_[id].state = "DONE"
                        /\ inquiryCall.stored = <<"DONE">>
                        /\ inquiryCall.processAdd = <<"DONE">>
                        /\ Len(allinquiries_txt) = inquiryCall.linesBefore + 1
                        /\ allinquiries_txt[Len(allinquiries_txt)] = inquiries_[id]
                   [] OTHER ->
                        /\ inquiries_[id] = inquiryCall.storeBefore[id]
                        /\ inquiryCall.stored = <<>>
                        /\ inquiryCall.processAdd = <<>>

C38_Witness ==
    /\ inquiryCall.op = "RejectInquiry"
    /\ StoredDone(inquiryCall.storeBefore, inquiryCall.inquiryId)
    /\ inquiries_[inquiryCall.inquiryId].state = "REJECTED"
    /\ Len(allinquiries_txt) = 2
    /\ allinquiries_txt[1].inquiryId = inquiryCall.inquiryId
    /\ allinquiries_txt[2].inquiryId = inquiryCall.inquiryId
    /\ allinquiries_txt[1] # allinquiries_txt[2]

(***************************************************************************)
(* C39: the market-data window counts records whatever their product and    *)
(* side.  A book is delivered on every (2 * bookDepth)-th record; its bid   *)
(* stack is the BID records of the window and its offer stack the OFFER     *)
(* records, both in file order; its product is the productId of the last    *)
(* record of the window, so the records of other products in the window are *)
(* attributed to that product.                                               *)
(***************************************************************************)
\* the records of the i-th window of marketdata.txt
WindowOf(i) ==
    SubSeq(marketdata_txt, (i - 1) * 2 * BookDepth + 1, i * 2 * BookDepth)

\* the orders of the records of a window that are on the given side
OrdersOn(window, side) ==
    LET records == SelectSeq(window, LAMBDA r : r.side = side)
    IN  [k \in 1..Len(records) |->
            Order(records[k].price, records[k].quantity, records[k].side)]

C39_WindowIgnoresProduct ==
    /\ Len(marketdata_txt) = recordsRead
    /\ Len(booksDelivered) = Len(marketdata_txt) \div (2 * BookDepth)
    /\ order_count = Len(marketdata_txt) % (2 * BookDepth)
    /\ \A i \in 1..Len(booksDelivered) :
          /\ booksDelivered[i].bidStack = OrdersOn(WindowOf(i), "BID")
          /\ booksDelivered[i].offerStack = OrdersOn(WindowOf(i), "OFFER")
          /\ booksDelivered[i].product = WindowOf(i)[2 * BookDepth].product

C39_Witness ==
    \E i \in 1..Len(booksDelivered) :
        /\ WindowOf(i)[1].product # WindowOf(i)[2 * BookDepth].product
        /\ WindowOf(i)[1].side = "BID"
        /\ booksDelivered[i].product = WindowOf(i)[2 * BookDepth].product
        /\ booksDelivered[i].bidStack[1].price = WindowOf(i)[1].price
        /\ booksDelivered[i].bidStack[1].quantity = WindowOf(i)[1].quantity
        /\ booksDelivered[i].offerStack # <<>>
        /\ order_books_[booksDelivered[i].product] = booksDelivered[i]

(***************************************************************************)
(* C40: the alternation counter of AlgoExecutionService is one counter for  *)
(* all products and always equals the number of orders emitted so far: an   *)
(* emission is on side BID exactly when the number of earlier emissions,    *)
(* of any product, is even.  So the emissions of one product need not       *)
(* alternate when eligible books of several products interleave.             *)
(***************************************************************************)
C40_SharedCounter ==
    /\ execution_count_ = Len(algoOrders)
    /\ \A i \in 1..Len(algoOrders) :
          (algoOrders[i].order.side = "BID") <=> ((i - 1) % 2 = 0)
    /\ \A i \in 1..Len(algoOrders) : algoOrders[i].order.side \in PricingSides
    /\ (algoExecute.called /\ algoExecute.emitted) =>
          /\ algoExecute.side = algoOrders[Len(algoOrders)].order.side
          /\ (algoExecute.side = "BID") <=> (execution_count_ % 2 = 1)

C40_Witness ==
    /\ Len(algoOrders) = 3
    /\ execution_count_ = 3
    /\ algoOrders[1].order.product = algoOrders[3].order.product
    /\ algoOrders[2].order.product # algoOrders[1].order.product
    /\ algoOrders[1].order.side = "BID"
    /\ algoOrders[2].order.side = "OFFER"
    /\ algoOrders[3].order.side = "BID"

=============================================================================
